---- MODULE Spec2Model ----
(***************************************************************************)
(* Layered configuration resolution of fulcrumproject/commons (package     *)
(* config): the generic Builder (New / LoadFile / WithEnv / Build), the    *)
(* ancestor environment-file locator (loadEnvFromAncestors) and the        *)
(* reflective mapper (loadEnvToStruct).                                    *)
(*                                                                         *)
(* Strings are TLA+ strings; characters are read with SubSeq(s, i, i).     *)
(* The Go error value nil is the string NoErr; every other error is its    *)
(* message, built the way fmt.Errorf builds it.                            *)
(***************************************************************************)
EXTENDS Integers, Sequences, FiniteSets, TLC

VARIABLES
    recType,     \* the record type T points to (one of RecTypes)
    config,      \* Builder.config: the caller's record, mutated in place
    err,         \* Builder.err
    envPrefix,   \* Builder.envPrefix
    envTag,      \* Builder.envTag
    envFiles,    \* Builder.envFiles
    environ,     \* the process environment (os.Getenv / os.Setenv): key -> value
    cwd,         \* the working directory os.Getwd reports (NoCwd: Getwd fails)
    ret,         \* what the last Build returned
    chain,       \* history: the LoadFile and WithEnv calls made so far
    builtAt,     \* history: the length of the chain at the last Build
    defaultCfg,  \* history: the record handed to New
    realEnv,     \* history: the process environment when the builder was made
    firstErr,    \* history: the error of the first chain call that failed
    invoked,     \* history: what the last call invoked outside the builder
    resolvers,   \* two goroutines inside WithEnv on builders of their own
    walk,        \* the loops of loadEnvFromAncestors, statement by statement
    options,     \* the options given to New
    keycloak,    \* package keycloak: a Config, the claims of a token, a result
    logcfg,      \* package config: a Log and a DB record, and a level read
    earlier      \* history: the resolutions that ended earlier in the process

\* The builder of the chain New / LoadFile / WithEnv / Build and its world.
builderVars == << recType, config, err, envPrefix, envTag, envFiles, environ, cwd,
                  ret, chain, builtAt, defaultCfg, realEnv, firstErr, invoked >>

\* What the other specifications of this module are about.
auxVars == << resolvers, walk, options, keycloak, logcfg, earlier >>

vars == << builderVars, auxVars >>

\* The value of a variable in a specification that is not about it.
Unused == << >>

\* Longest chain of LoadFile and WithEnv calls on one builder.
MaxCalls == 2

NoErr == "<nil>"

NilPath == [isNil |-> TRUE]

NoCwd == "<getwd failed>"

-----------------------------------------------------------------------------
(* Strings (package strings)                                               *)

\* body applied to the value of x: x is evaluated once, before body.
Bind(x, body(_)) == CHOOSE r \in { body(v) : v \in { x } } : TRUE

Char(s, i) == SubSeq(s, i, i)

Range(f) == { f[x] : x \in DOMAIN f }

WhiteSpace == { " ", "\t", "\n", "\r", "\f" }

RECURSIVE TrimLeft(_)
TrimLeft(s) ==
    IF Len(s) > 0 /\ Char(s, 1) \in WhiteSpace
    THEN TrimLeft(SubSeq(s, 2, Len(s)))
    ELSE s

RECURSIVE TrimRight(_)
TrimRight(s) ==
    IF Len(s) > 0 /\ Char(s, Len(s)) \in WhiteSpace
    THEN TrimRight(SubSeq(s, 1, Len(s) - 1))
    ELSE s

\* strings.TrimSpace
TrimSpace(s) == TrimRight(TrimLeft(s))

RECURSIVE SplitFrom(_, _, _, _, _)
SplitFrom(s, sep, i, cur, acc) ==
    IF i > Len(s) THEN Append(acc, cur)
    ELSE IF Char(s, i) = sep
         THEN SplitFrom(s, sep, i + 1, "", Append(acc, cur))
         ELSE SplitFrom(s, sep, i + 1, cur \o Char(s, i), acc)

\* strings.Split(s, sep) for a one-character separator: never empty, the
\* empty string splits into one empty element.
Split(s, sep) == SplitFrom(s, sep, 1, "", << >>)

\* Index of the first occurrence of the character c in s, 0 when absent.
RECURSIVE IndexFrom(_, _, _)
IndexFrom(s, c, i) ==
    IF i > Len(s) THEN 0
    ELSE IF Char(s, i) = c THEN i ELSE IndexFrom(s, c, i + 1)

Index(s, c) == IndexFrom(s, c, 1)

\* Index of the last occurrence of the character c in s, 0 when absent.
RECURSIVE LastIndexFrom(_, _, _)
LastIndexFrom(s, c, i) ==
    IF i < 1 THEN 0
    ELSE IF Char(s, i) = c THEN i ELSE LastIndexFrom(s, c, i - 1)

LastIndex(s, c) == LastIndexFrom(s, c, Len(s))

HasPrefix(s, p) == Len(s) >= Len(p) /\ SubSeq(s, 1, Len(p)) = p

-----------------------------------------------------------------------------
(* Literals (package strconv)                                              *)

Digits == { "0", "1", "2", "3", "4", "5", "6", "7", "8", "9" }

DigitVal(c) ==
    CASE c = "0" -> 0 [] c = "1" -> 1 [] c = "2" -> 2 [] c = "3" -> 3
      [] c = "4" -> 4 [] c = "5" -> 5 [] c = "6" -> 6 [] c = "7" -> 7
      [] c = "8" -> 8 [] c = "9" -> 9

AllDigits(s) == Len(s) > 0 /\ \A i \in 1..Len(s) : Char(s, i) \in Digits

RECURSIVE DigitsValue(_, _, _)
DigitsValue(s, i, acc) ==
    IF i > Len(s) THEN acc
    ELSE DigitsValue(s, i + 1, acc * 10 + DigitVal(Char(s, i)))

SyntaxError(fn, s) == "strconv." \o fn \o ": parsing \"" \o s \o "\": invalid syntax"

\* strconv.ParseUint(s, 10, 64): digits only, no sign.  The literals of the
\* model are far below 2^64, so the range error does not arise.
ParseUint(s) ==
    IF AllDigits(s)
    THEN [val |-> DigitsValue(s, 1, 0), err |-> NoErr]
    ELSE [val |-> 0, err |-> SyntaxError("ParseUint", s)]

\* strconv.ParseInt(s, 10, 64): an optional sign, then digits.
ParseInt(s) ==
    LET neg  == Len(s) > 0 /\ Char(s, 1) = "-"
        sign == Len(s) > 0 /\ Char(s, 1) \in { "+", "-" }
        body == IF sign THEN SubSeq(s, 2, Len(s)) ELSE s
    IN  IF AllDigits(body)
        THEN [val |-> IF neg THEN 0 - DigitsValue(body, 1, 0)
                             ELSE DigitsValue(body, 1, 0),
              err |-> NoErr]
        ELSE [val |-> 0, err |-> SyntaxError("ParseInt", s)]

\* strconv.ParseBool
ParseBool(s) ==
    IF s \in { "1", "t", "T", "TRUE", "true", "True" }
    THEN [val |-> TRUE, err |-> NoErr]
    ELSE IF s \in { "0", "f", "F", "FALSE", "false", "False" }
         THEN [val |-> FALSE, err |-> NoErr]
         ELSE [val |-> FALSE, err |-> SyntaxError("ParseBool", s)]

\* A decimal number m * 10^e, normalised so that equal numbers are equal
\* records: m has no trailing zero unless the number is zero.
RECURSIVE Decimal(_, _)
Decimal(m, e) ==
    IF m = 0 THEN [m |-> 0, e |-> 0]
    ELSE IF m % 10 = 0 THEN Decimal(m \div 10, e + 1)
         ELSE [m |-> m, e |-> e]

\* strconv.ParseFloat(s, 64) on plain decimal literals: an optional sign,
\* digits, and an optional fraction.  (Exponents, hexadecimal literals, inf
\* and nan are not among the literals of the model; the value is kept as an
\* exact decimal.)
ParseFloat(s) ==
    LET neg   == Len(s) > 0 /\ Char(s, 1) = "-"
        sign  == Len(s) > 0 /\ Char(s, 1) \in { "+", "-" }
        body  == IF sign THEN SubSeq(s, 2, Len(s)) ELSE s
        dot   == Index(body, ".")
        whole == IF dot = 0 THEN body ELSE SubSeq(body, 1, dot - 1)
        frac  == IF dot = 0 THEN "" ELSE SubSeq(body, dot + 1, Len(body))
        ok    == /\ Len(whole) + Len(frac) > 0
                 /\ \A i \in 1..Len(whole) : Char(whole, i) \in Digits
                 /\ \A i \in 1..Len(frac) : Char(frac, i) \in Digits
        mag   == DigitsValue(whole \o frac, 1, 0)
    IN  IF ok
        THEN [val |-> Decimal(IF neg THEN 0 - mag ELSE mag, 0 - Len(frac)),
              err |-> NoErr]
        ELSE [val |-> Decimal(0, 0), err |-> SyntaxError("ParseFloat", s)]

\* The first position from i on whose character is not in the set, or the
\* position after the end.
SpanEnd(s, i, set) ==
    CHOOSE j \in i..(Len(s) + 1) :
        /\ j = Len(s) + 1 \/ Char(s, j) \notin set
        /\ \A k \in i..(j - 1) : Char(s, k) \in set

\* The units of time.ParseDuration that are whole milliseconds.
unitMap == ( "ms" :> 1 ) @@ ( "s" :> 1000 ) @@ ( "m" :> 60000 ) @@ ( "h" :> 3600000 )

\* The loop of time.ParseDuration over the number-and-unit groups from
\* position i on; ms is the time of the groups read so far.
RECURSIVE DurationGroups(_, _, _, _)
DurationGroups(orig, s, i, ms) ==
    LET j    == SpanEnd(s, i, Digits)
        k    == SpanEnd(s, j, { Char(s, n) : n \in 1..Len(s) } \ (Digits \cup { "." }))
        unit == SubSeq(s, j, k - 1)
        bad(msg) == [val |-> Decimal(0, 0), err |-> msg]
    IN  IF j = i
        THEN bad("time: invalid duration \"" \o orig \o "\"")
        ELSE IF unit = ""
        THEN bad("time: missing unit in duration \"" \o orig \o "\"")
        ELSE IF unit \notin DOMAIN unitMap
        THEN bad("time: unknown unit \"" \o unit \o "\" in duration \"" \o orig \o "\"")
        ELSE LET total == ms + DigitsValue(SubSeq(s, i, j - 1), 1, 0) * unitMap[unit]
             IN  IF k > Len(s)
                 THEN [val |-> total, err |-> NoErr]
                 ELSE DurationGroups(orig, s, k, total)

\* time.ParseDuration on whole numbers of hours, minutes, seconds and
\* milliseconds: an optional sign, then one or more groups of a number and a
\* unit, or a lone 0.  (Fractions and the units below a millisecond are not
\* among the literals of the model.)  The value is the decimal number of
\* nanoseconds.
ParseDuration(s) ==
    LET neg  == Len(s) > 0 /\ Char(s, 1) = "-"
        sign == Len(s) > 0 /\ Char(s, 1) \in { "+", "-" }
        body == IF sign THEN SubSeq(s, 2, Len(s)) ELSE s
    IN  IF body = "0" THEN [val |-> Decimal(0, 0), err |-> NoErr]
        ELSE IF body = ""
        THEN [val |-> Decimal(0, 0), err |-> "time: invalid duration \"" \o s \o "\""]
        ELSE LET r == DurationGroups(s, body, 1, 0)
             IN  IF r.err /= NoErr THEN r
                 ELSE [val |-> Decimal(IF neg THEN 0 - r.val ELSE r.val, 6),
                       err |-> NoErr]

\* reflect.Value.SetInt and SetUint on a field of the given width: the 64-bit
\* value is converted to the field's type, which keeps its low bits.
SetInt(bits, x) == ((x + 2 ^ (bits - 1)) % 2 ^ bits) - 2 ^ (bits - 1)

SetUint(bits, x) == x % 2 ^ bits

\* The width of an integer kind (int and uint are 64 bits wide here, wider
\* than any literal of the model).
Bits(kind) == IF kind \in { "int8", "uint8" } THEN 8 ELSE 64

-----------------------------------------------------------------------------
(* Record types                                                            *)

\* type testConfig struct: a field is its name, its kind and its struct tags.
testConfigFields ==
    << [name |-> "Name",     kind |-> "string",  exported |-> TRUE,
        tags |-> [json |-> "name",      env |-> "NAME"]],
       [name |-> "Port",     kind |-> "int",     exported |-> TRUE,
        tags |-> [json |-> "port",      env |-> "PORT"]],
       [name |-> "Enabled",  kind |-> "bool",    exported |-> TRUE,
        tags |-> [json |-> "enabled",   env |-> "ENABLED"]],
       [name |-> "Factor",   kind |-> "float",   exported |-> TRUE,
        tags |-> [json |-> "factor",    env |-> "FACTOR"]],
       [name |-> "MaxConns", kind |-> "uint",    exported |-> TRUE,
        tags |-> [json |-> "max_conns", env |-> "MAX_CONNS"]],
       [name |-> "Tags",     kind |-> "strings", exported |-> TRUE,
        tags |-> [json |-> "tags",      env |-> "TAGS"]] >>

\* type DB struct
DBFields ==
    << [name |-> "DSN",       kind |-> "string", exported |-> TRUE,
        tags |-> [json |-> "dsn", env |-> "DB_DSN", validate |-> "required"]],
       [name |-> "LogLevel",  kind |-> "string", exported |-> TRUE,
        tags |-> [json |-> "logLevel", env |-> "DB_LOG_LEVEL",
                  validate |-> "omitempty,oneof=silent error warn info"]],
       [name |-> "LogFormat", kind |-> "string", exported |-> TRUE,
        tags |-> [json |-> "logFormat", env |-> "DB_LOG_FORMAT",
                  validate |-> "omitempty,oneof=text json"]] >>

\* type NestedConfig struct and type TestConfigWithNested struct: Nested is
\* a field of struct kind that carries no tag.
NestedConfigFields ==
    << [name |-> "Value", kind |-> "string", exported |-> TRUE,
        tags |-> [env |-> "VALUE"]] >>

TestConfigWithNestedFields ==
    << [name |-> "Name",   kind |-> "string", exported |-> TRUE,
        tags |-> [env |-> "NAME"]],
       [name |-> "Nested", kind |-> "struct", elem |-> "NestedConfig",
        exported |-> TRUE, tags |-> << >>] >>

\* type TestConfigWithUnexported struct
TestConfigWithUnexportedFields ==
    << [name |-> "Name",            kind |-> "string", exported |-> TRUE,
        tags |-> [env |-> "NAME"]],
       [name |-> "unexportedField", kind |-> "string", exported |-> FALSE,
        tags |-> [env |-> "UNEXPORTED"]] >>

\* type TestConfigNoTags struct
TestConfigNoTagsFields ==
    << [name |-> "Name",     kind |-> "string", exported |-> TRUE,
        tags |-> [env |-> "NAME"]],
       [name |-> "NoTag",    kind |-> "string", exported |-> TRUE,
        tags |-> << >>],
       [name |-> "EmptyTag", kind |-> "string", exported |-> TRUE,
        tags |-> [env |-> ""]] >>

\* A record with the remaining kinds the mapper's switch names: 8-bit
\* integers and a time.Duration inside a nested record whose field carries a
\* tag of its own, a nested record in a field that is not exported, and a
\* field declared after the nested ones.
LimitsConfigFields ==
    << [name |-> "Small", kind |-> "int8",     exported |-> TRUE,
        tags |-> [env |-> "SMALL"]],
       [name |-> "Byte",  kind |-> "uint8",    exported |-> TRUE,
        tags |-> [env |-> "BYTE"]],
       [name |-> "Wait",  kind |-> "duration", exported |-> TRUE,
        tags |-> [env |-> "WAIT"]] >>

AppConfigFields ==
    << [name |-> "Name",   kind |-> "string", exported |-> TRUE,
        tags |-> [env |-> "NAME"]],
       [name |-> "Limits", kind |-> "struct", elem |-> "LimitsConfig",
        exported |-> TRUE, tags |-> [env |-> "LIMITS"]],
       [name |-> "inner",  kind |-> "struct", elem |-> "NestedConfig",
        exported |-> FALSE, tags |-> << >>],
       [name |-> "After",  kind |-> "string", exported |-> TRUE,
        tags |-> [env |-> "AFTER"]] >>

\* A record with tagged fields of kinds the mapper's switch does not name:
\* a map[string]string, a *string and a []int, and with them a nested
\* record whose field carries a tag of its own.
ServiceConfigFields ==
    << [name |-> "Name",   kind |-> "string", exported |-> TRUE,
        tags |-> [env |-> "NAME"]],
       [name |-> "Labels", kind |-> "map",    exported |-> TRUE,
        tags |-> [env |-> "LABELS"]],
       [name |-> "Parent", kind |-> "ptr",    exported |-> TRUE,
        tags |-> [env |-> "PARENT"]],
       [name |-> "Ports",  kind |-> "ints",   exported |-> TRUE,
        tags |-> [env |-> "PORTS"]],
       [name |-> "Limits", kind |-> "struct", elem |-> "LimitsConfig",
        exported |-> TRUE, tags |-> [env |-> "LIMITS"]],
       [name |-> "After",  kind |-> "string", exported |-> TRUE,
        tags |-> [env |-> "AFTER"]] >>

\* The record types a builder is made for.
RecTypes ==
    { "testConfig", "DB", "TestConfigWithNested", "TestConfigWithUnexported",
      "TestConfigNoTags", "AppConfig", "ServiceConfig" }

Fields(typ) ==
    CASE typ = "testConfig"               -> testConfigFields
      [] typ = "DB"                       -> DBFields
      [] typ = "NestedConfig"             -> NestedConfigFields
      [] typ = "TestConfigWithNested"     -> TestConfigWithNestedFields
      [] typ = "TestConfigWithUnexported" -> TestConfigWithUnexportedFields
      [] typ = "TestConfigNoTags"         -> TestConfigNoTagsFields
      [] typ = "LimitsConfig"             -> LimitsConfigFields
      [] typ = "AppConfig"                -> AppConfigFields
      [] typ = "ServiceConfig"            -> ServiceConfigFields

FieldNames(typ) == { Fields(typ)[i].name : i \in DOMAIN Fields(typ) }

\* reflect.StructTag.Lookup
TagLookup(field, tag) ==
    IF tag \in DOMAIN field.tags
    THEN [val |-> field.tags[tag], ok |-> TRUE]
    ELSE [val |-> "", ok |-> FALSE]

\* The zero value of a field of the given kind.  A duration is held as the
\* decimal number of its nanoseconds, a pointer as the sequence of what it
\* points to (none when nil), a map as a function (nil and empty alike).
ZeroOf(kind) ==
    CASE kind = "string"   -> ""
      [] kind = "int"      -> 0
      [] kind = "int8"     -> 0
      [] kind = "uint"     -> 0
      [] kind = "uint8"    -> 0
      [] kind = "bool"     -> FALSE
      [] kind = "float"    -> Decimal(0, 0)
      [] kind = "duration" -> Decimal(0, 0)
      [] kind = "strings"  -> << >>
      [] kind = "ints"     -> << >>
      [] kind = "ptr"      -> << >>
      [] kind = "map"      -> << >>

\* The zero value of a record type: every field zero, nested records too.
RECURSIVE ZeroRecord(_)
ZeroRecord(typ) ==
    [n \in FieldNames(typ) |->
        LET f == Fields(typ)[CHOOSE i \in DOMAIN Fields(typ) : Fields(typ)[i].name = n]
        IN  IF f.kind = "struct" THEN ZeroRecord(f.elem) ELSE ZeroOf(f.kind)]

\* newTestConfig()
newTestConfig ==
    [Name |-> "test-app", Port |-> 8080, Enabled |-> TRUE,
     Factor |-> Decimal(10, -1), MaxConns |-> 100, Tags |-> << "default" >>]

\* func (c *testConfig) Validate() error: the method the test record carries.
testConfigValidate(c) ==
    IF c.Name = "" THEN "name cannot be empty"
    ELSE IF c.Port <= 0 THEN "port must be positive"
    ELSE IF c.Factor.m < 0 THEN "factor cannot be negative"
    ELSE NoErr

\* Default records a caller hands to New: the test defaults, a populated DB
\* record, and a DB record whose required DSN was left empty.
Defaults(typ) ==
    CASE typ = "testConfig" -> { newTestConfig }
      [] typ = "DB" ->
           { [DSN |-> "postgres://default", LogLevel |-> "warn", LogFormat |-> "text"],
             [DSN |-> "", LogLevel |-> "", LogFormat |-> ""] }
      [] typ = "TestConfigWithNested" ->
           { [Name |-> "test", Nested |-> [Value |-> "default"]] }
      [] typ = "TestConfigWithUnexported" ->
           { [Name |-> "test", unexportedField |-> "default"] }
      [] typ = "TestConfigNoTags" ->
           { [Name |-> "test", NoTag |-> "default-no-tag",
              EmptyTag |-> "default-empty-tag"] }
      [] typ = "AppConfig" ->
           { [Name |-> "test",
              Limits |-> [Small |-> 1, Byte |-> 2, Wait |-> Decimal(3, 10)],
              inner |-> [Value |-> "default"],
              After |-> "default-after"] }
      [] typ = "ServiceConfig" ->
           { [Name |-> "test", Labels |-> ( "tier" :> "gold" ),
              Parent |-> << "base" >>, Ports |-> << 8080 >>,
              Limits |-> [Small |-> 1, Byte |-> 2, Wait |-> Decimal(3, 10)],
              After |-> "default-after"] }

-----------------------------------------------------------------------------
(* Struct validation (validator.New().Struct)                              *)

IsZero(kind, v) == v = ZeroOf(kind)

\* One field against its validate tag: the rules are read left to right,
\* omitempty ends the check of a zero value, required needs a non-zero value
\* and oneof=a b c one of the listed words.  The result is the failed rule.
RECURSIVE CheckRules(_, _, _, _)
CheckRules(rules, i, kind, v) ==
    IF i > Len(rules) THEN ""
    ELSE LET r == rules[i] IN
         IF r = "omitempty"
         THEN IF IsZero(kind, v) THEN "" ELSE CheckRules(rules, i + 1, kind, v)
         ELSE IF r = "required"
         THEN IF IsZero(kind, v) THEN "required"
              ELSE CheckRules(rules, i + 1, kind, v)
         ELSE IF HasPrefix(r, "oneof=")
         THEN IF v \in Range(Split(SubSeq(r, 7, Len(r)), " "))
              THEN CheckRules(rules, i + 1, kind, v)
              ELSE "oneof"
         ELSE CheckRules(rules, i + 1, kind, v)

FieldError(typ, field, rule) ==
    "Key: '" \o typ \o "." \o field.name \o "' Error:Field validation for '"
        \o field.name \o "' failed on the '" \o rule \o "' tag"

\* validator.Struct: every field with a validate tag is checked, the failures
\* are reported together; NoErr when there is none.
RECURSIVE StructErrors(_, _, _, _)
StructErrors(typ, c, i, acc) ==
    IF i > Len(Fields(typ)) THEN acc
    ELSE LET f    == Fields(typ)[i]
             t    == TagLookup(f, "validate")
             rule == IF t.ok THEN CheckRules(Split(t.val, ","), 1, f.kind, c[f.name])
                     ELSE ""
         IN  StructErrors(typ, c, i + 1,
                 IF rule = "" THEN acc
                 ELSE IF acc = "" THEN FieldError(typ, f, rule)
                      ELSE acc \o "\n" \o FieldError(typ, f, rule))

ValidateStruct(typ, c) ==
    LET msg == StructErrors(typ, c, 1, "") IN IF msg = "" THEN NoErr ELSE msg

-----------------------------------------------------------------------------
(* JSON documents and the file overlay (os.ReadFile, json.Unmarshal)       *)

JStr(s)  == [t |-> "string", s |-> s]
JNum(l)  == [t |-> "number", lit |-> l]
JBool(b) == [t |-> "bool", b |-> b]
JArr(a)  == [t |-> "array", elems |-> a]
JNull    == [t |-> "null"]

\* One "key": value member of a JSON object.
Member(k, v) == [key |-> k, val |-> v]

\* The files LoadFile can be pointed at.  A document is a JSON object, its
\* members in the order of the text, or text that is not JSON.  Numbers are
\* kept as their literals.
JsonFiles ==
    ( "/etc/app/config.json" :>
        [valid |-> TRUE,
         object |-> << Member("name", JStr("file-app")), Member("port", JNum("9090")),
                       Member("factor", JNum("2.0")),
                       Member("dsn", JStr("postgres://file")),
                       Member("comment", JStr("not a field")) >>] )
 @@ ( "/etc/app/blank.json" :>
        [valid |-> TRUE,
         object |-> << Member("name", JStr("")), Member("port", JNum("0")),
                       Member("tags", JArr(<< JStr("file"), JStr("tag") >>)),
                       Member("dsn", JStr("")), Member("logLevel", JStr("debug")) >>] )
 @@ ( "/etc/app/mistyped.json" :>
        [valid |-> TRUE,
         object |-> << Member("name", JStr("typed-app")),
                       Member("port", JStr("not-a-number")),
                       Member("enabled", JBool(FALSE)),
                       Member("dsn", JNum("5")), Member("logLevel", JStr("error")) >>] )
 @@ ( "/etc/app/nulls.json" :>
        [valid |-> TRUE,
         object |-> << Member("name", JStr("first-app")), Member("port", JNull),
                       Member("tags", JNull), Member("Enabled", JBool(FALSE)),
                       Member("dsn", JNull), Member("LOGFORMAT", JStr("json")),
                       Member("name", JStr("null-app")) >>] )
 @@ ( "/etc/app/broken.json" :> [valid |-> FALSE] )

Ptr(s) == [isNil |-> FALSE, s |-> s]

\* The *string arguments a caller passes to LoadFile.
Paths ==
    { NilPath, Ptr(""), Ptr("/nonexistent/file.json") }
        \cup { Ptr(p) : p \in DOMAIN JsonFiles }

UpperCase == "ABCDEFGHIJKLMNOPQRSTUVWXYZ"
LowerCase == "abcdefghijklmnopqrstuvwxyz"

\* The small letter of each ASCII capital.
FoldTable ==
    [c \in { Char(UpperCase, i) : i \in 1..Len(UpperCase) } |->
        Char(LowerCase, CHOOSE i \in 1..Len(UpperCase) : Char(UpperCase, i) = c)]

\* A string with its ASCII capitals folded to small letters.
RECURSIVE ToLower(_)
ToLower(s) ==
    IF s = "" THEN ""
    ELSE LET c == Char(s, 1)
         IN  (IF c \in DOMAIN FoldTable THEN FoldTable[c] ELSE c)
                 \o ToLower(SubSeq(s, 2, Len(s)))

\* The key a field is decoded from: its json tag, or its name without one.
JsonKey(field) ==
    IF TagLookup(field, "json").ok THEN TagLookup(field, "json").val ELSE field.name

\* The keys of the fields of each record type, folded.
FoldedKeys ==
    [typ \in RecTypes |->
        [i \in DOMAIN Fields(typ) |-> ToLower(JsonKey(Fields(typ)[i]))]]

\* The field a member's key selects: the exported field with exactly that
\* key, else the first one whose key is equal ignoring case, else none (0).
FieldIndex(typ, key) ==
    LET exact == { i \in DOMAIN Fields(typ) :
                     Fields(typ)[i].exported /\ JsonKey(Fields(typ)[i]) = key }
        folded == ToLower(key)
        fold  == { i \in DOMAIN Fields(typ) :
                     Fields(typ)[i].exported /\ FoldedKeys[typ][i] = folded }
        least(S) == CHOOSE i \in S : \A j \in S : i <= j
    IN  IF exact /= {} THEN least(exact)
        ELSE IF fold /= {} THEN least(fold) ELSE 0

\* The keys that occur in the documents, and the field each selects in each
\* record type (the per-type field table the decoder keeps).
MemberKeys ==
    UNION { { JsonFiles[p].object[i].key : i \in DOMAIN JsonFiles[p].object } :
              p \in { q \in DOMAIN JsonFiles : JsonFiles[q].valid } }

cachedTypeFields ==
    [typ \in RecTypes |-> [key \in MemberKeys |-> FieldIndex(typ, key)]]

TypeError(typ, field, v) ==
    "json: cannot unmarshal " \o v.t \o " into Go struct field " \o typ \o "."
        \o JsonKey(field) \o " of type " \o field.kind

\* One JSON value decoded into a field of the given kind: the new value, or a
\* type error that leaves the field as it was.  null makes a sequence, a
\* pointer or a map nil and has no effect on a field of any other kind.  (The documents hold no
\* object as a value, so whatever value meets a nested record is mistyped.)
DecodeValue(typ, field, v, old) ==
    LET bad == [val |-> old, err |-> TypeError(typ, field, v)]
        set(x) == [val |-> x, err |-> NoErr]
    IN  CASE v.t = "null" ->
               IF field.kind \in { "strings", "ints", "ptr", "map" }
               THEN set(<< >>) ELSE set(old)
          [] v.t /= "null" /\ field.kind = "string" ->
               IF v.t = "string" THEN set(v.s) ELSE bad
          [] v.t /= "null" /\ field.kind = "int" ->
               IF v.t = "number" /\ ParseInt(v.lit).err = NoErr
               THEN set(ParseInt(v.lit).val) ELSE bad
          [] v.t /= "null" /\ field.kind = "uint" ->
               IF v.t = "number" /\ ParseUint(v.lit).err = NoErr
               THEN set(ParseUint(v.lit).val) ELSE bad
          [] v.t /= "null" /\ field.kind = "int8" ->
               IF /\ v.t = "number" /\ ParseInt(v.lit).err = NoErr
                  /\ SetInt(8, ParseInt(v.lit).val) = ParseInt(v.lit).val
               THEN set(ParseInt(v.lit).val) ELSE bad
          [] v.t /= "null" /\ field.kind = "uint8" ->
               IF /\ v.t = "number" /\ ParseUint(v.lit).err = NoErr
                  /\ SetUint(8, ParseUint(v.lit).val) = ParseUint(v.lit).val
               THEN set(ParseUint(v.lit).val) ELSE bad
          [] v.t /= "null" /\ field.kind = "duration" ->
               IF v.t = "number" /\ ParseInt(v.lit).err = NoErr
               THEN set(Decimal(ParseInt(v.lit).val, 0)) ELSE bad
          [] v.t /= "null" /\ field.kind \in { "struct", "map" } -> bad
          [] v.t /= "null" /\ field.kind = "ptr" ->
               IF v.t = "string" THEN set(<< v.s >>) ELSE bad
          [] v.t /= "null" /\ field.kind = "ints" ->
               IF /\ v.t = "array"
                  /\ \A i \in DOMAIN v.elems :
                        v.elems[i].t = "number" /\ ParseInt(v.elems[i].lit).err = NoErr
               THEN set([i \in DOMAIN v.elems |-> ParseInt(v.elems[i].lit).val])
               ELSE bad
          [] v.t /= "null" /\ field.kind = "float" ->
               IF v.t = "number" /\ ParseFloat(v.lit).err = NoErr
               THEN set(ParseFloat(v.lit).val) ELSE bad
          [] v.t /= "null" /\ field.kind = "bool" ->
               IF v.t = "bool" THEN set(v.b) ELSE bad
          [] v.t /= "null" /\ field.kind = "strings" ->
               IF v.t = "array" /\ \A i \in DOMAIN v.elems : v.elems[i].t = "string"
               THEN set([i \in DOMAIN v.elems |-> v.elems[i].s]) ELSE bad
          [] OTHER -> [val |-> old, err |-> NoErr]

\* The members of the object, in order, decoded onto the record: a member
\* whose key selects a field is decoded into it (a later member with the
\* same key decodes over an earlier one), a member no field has is ignored,
\* a field no member selects keeps its value.  A type error does not stop
\* the decoding; the first one is what Unmarshal returns.
RECURSIVE DecodeObject(_, _, _, _, _)
DecodeObject(typ, obj, c, i, e) ==
    IF i > Len(obj) THEN [config |-> c, err |-> e]
    ELSE LET fi == cachedTypeFields[typ][obj[i].key]
         IN  IF fi = 0 THEN DecodeObject(typ, obj, c, i + 1, e)
             ELSE LET f == Fields(typ)[fi]
                      d == DecodeValue(typ, f, obj[i].val, c[f.name])
                  IN  DecodeObject(typ, obj, [c EXCEPT ![f.name] = d.val], i + 1,
                                   IF e = NoErr THEN d.err ELSE e)

\* json.Unmarshal(data, b.config) decoding onto a fresh record of the type
\* in place of the builder's record.
JSONUnmarshalFresh(typ, doc, c) ==
    IF ~doc.valid
    THEN [config |-> c, err |-> "invalid character 'i' looking for beginning of object key string"]
    ELSE DecodeObject(typ, doc.object,
                      ZeroRecord(typ), 1, NoErr)

\* json.Unmarshal(data, b.config) giving a value only to the fields that
\* still hold their zero value.
JSONUnmarshalFillsZero(typ, doc, c) ==
    IF ~doc.valid
    THEN [config |-> c, err |-> "invalid character 'i' looking for beginning of object key string"]
    ELSE LET u == DecodeObject(typ, doc.object, c, 1, NoErr)
         IN  [config |-> [n \in DOMAIN c |->
                             IF c[n] = ZeroRecord(typ)[n] THEN u.config[n] ELSE c[n]],
              err |-> u.err]

\* json.Unmarshal(data, b.config): text that is not JSON is rejected before
\* anything is decoded.
JSONUnmarshal(typ, doc, c) ==
    IF ~doc.valid
    THEN [config |-> c, err |-> "invalid character 'i' looking for beginning of object key string"]
    ELSE DecodeObject(typ, doc.object, c, 1, NoErr)

\* os.ReadFile
ReadFile(path) ==
    IF path \in DOMAIN JsonFiles
    THEN [data |-> JsonFiles[path], err |-> NoErr]
    ELSE [data |-> [valid |-> FALSE],
          err |-> "open " \o path \o ": no such file or directory"]

-----------------------------------------------------------------------------
(* The process environment and environment files (os, godotenv, filepath)  *)

\* os.Getenv: the empty string for a variable that is not set.
Getenv(env, key) == IF key \in DOMAIN env THEN env[key] ELSE ""

\* os.Setenv
Setenv(env, key, value) ==
    [k \in DOMAIN env \cup { key } |-> IF k = key THEN value ELSE env[k]]

\* The environment files on disk, as their text; one entry is a directory.
EnvFileSystem ==
    ( "/srv/app/.env.test1" :>
        [isDir |-> FALSE, text |-> "TEST_NAME=name-from-file1\nTEST_PORT=1111"] )
 @@ ( "/srv/app/.env.test2" :>
        [isDir |-> FALSE, text |-> "TEST_PORT=2222\nTEST_FACTOR=7.7\nPORT=5050"] )
 @@ ( "/srv/.env.test1" :>
        [isDir |-> FALSE,
         text |-> "# parent directory\nTEST_PORT=3333\nTEST_ENABLED = false\n\nTEST_DB_DSN=postgres://envfile"] )
 @@ ( "/.env.test2" :>
        [isDir |-> FALSE,
         text |-> "TEST_TAGS=root, tag\nTEST_NAME=name-from-root\nTEST_MAX_CONNS=\nTEST_DB_LOG_LEVEL=silent"] )
 @@ ( "/srv/app/.env" :> [isDir |-> TRUE, text |-> ""] )
 @@ ( "/srv/.env" :>
        [isDir |-> FALSE, text |-> "TEST_NAME=name-from-bad-file\n%%% not an assignment"] )
 @@ ( "/.env" :>
        [isDir |-> FALSE, text |-> "TEST_PORT=not-an-int\nTEST_DB_LOG_FORMAT=xml"] )

\* godotenv.Parse on plain KEY=VALUE lines: blank lines and # comments are
\* skipped, key and value are trimmed, a line that is no assignment makes the
\* whole file unloadable.  The result lists the assignments in file order.
RECURSIVE ParseLines(_, _, _)
ParseLines(lines, i, acc) ==
    IF i > Len(lines) THEN [assigns |-> acc, err |-> NoErr]
    ELSE LET line == TrimSpace(lines[i])
             eq   == Index(line, "=")
             key  == TrimSpace(SubSeq(line, 1, eq - 1))
             val  == TrimSpace(SubSeq(line, eq + 1, Len(line)))
         IN  IF line = "" \/ HasPrefix(line, "#")
             THEN ParseLines(lines, i + 1, acc)
             ELSE IF eq = 0 \/ key = ""
                  THEN [assigns |-> << >>,
                        err |-> "unexpected character in variable name near \"" \o line \o "\""]
                  ELSE ParseLines(lines, i + 1, Append(acc, << key, val >>))

DotenvParse(text) == ParseLines(Split(text, "\n"), 1, << >>)

\* Every environment file parsed once.
ParsedEnvFiles ==
    [p \in DOMAIN EnvFileSystem |->
        IF EnvFileSystem[p].isDir
        THEN [assigns |-> << >>, err |-> "read " \o p \o ": is a directory"]
        ELSE DotenvParse(EnvFileSystem[p].text)]

AssignedKeys(assigns) == { assigns[i][1] : i \in DOMAIN assigns }

\* The value a parsed file gives a key: its last assignment.
AssignedValue(assigns, key) ==
    LET last == CHOOSE i \in DOMAIN assigns :
                    /\ assigns[i][1] = key
                    /\ \A j \in DOMAIN assigns : assigns[j][1] = key => j <= i
    IN  assigns[last][2]

\* godotenv.Overload in place of godotenv.Load: the file's value replaces
\* the value a key already has.
DotenvOverload(env, path) ==
    LET parsed == ParsedEnvFiles[path]
    IN  IF parsed.err /= NoErr
        THEN [env |-> env, err |-> parsed.err]
        ELSE [env |-> [k \in DOMAIN env \cup AssignedKeys(parsed.assigns) |->
                          IF k \in AssignedKeys(parsed.assigns)
                          THEN AssignedValue(parsed.assigns, k)
                          ELSE env[k]],
              err |-> NoErr]

\* godotenv.Load that takes a key held with the empty string for a key the
\* environment does not hold.
DotenvLoadFillsEmpty(env, path) ==
    LET parsed == ParsedEnvFiles[path]
    IN  IF parsed.err /= NoErr
        THEN [env |-> env, err |-> parsed.err]
        ELSE [env |-> [k \in DOMAIN env \cup AssignedKeys(parsed.assigns) |->
                          IF k \in DOMAIN env /\ (env[k] /= "" \/ k \notin AssignedKeys(parsed.assigns))
                          THEN env[k]
                          ELSE AssignedValue(parsed.assigns, k)],
              err |-> NoErr]

\* godotenv.Load(path): a file that cannot be read or parsed sets nothing;
\* otherwise every key of the file that the environment does not hold yet is
\* set, and a key it holds is left alone.
DotenvLoad(env, path) ==
    LET parsed == ParsedEnvFiles[path]
    IN  IF parsed.err /= NoErr
        THEN [env |-> env, err |-> parsed.err]
        ELSE [env |-> [k \in DOMAIN env \cup AssignedKeys(parsed.assigns) |->
                          IF k \in DOMAIN env THEN env[k]
                          ELSE AssignedValue(parsed.assigns, k)],
              err |-> NoErr]

\* os.Stat(path) succeeds
Exists(path) == path \in DOMAIN EnvFileSystem

\* filepath.Join(dir, name) for an absolute, clean dir and a plain name.
Join(dir, name) ==
    IF name = "" THEN dir
    ELSE IF dir = "/" THEN "/" \o name
         ELSE dir \o "/" \o name

\* filepath.Dir
Dir(path) ==
    LET i == LastIndex(path, "/")
    IN  IF i = 0 THEN "."
        ELSE IF i = 1 THEN "/"
             ELSE SubSeq(path, 1, i - 1)

\* The inner loop of loadEnvFromAncestors: the candidates of one directory,
\* in the caller's order.
RECURSIVE TryFiles(_, _, _, _, _)
TryFiles(env, dir, filesToTry, i, found) ==
    IF i > Len(filesToTry) THEN [env |-> env, found |-> found]
    ELSE LET envPath == Join(dir, filesToTry[i])
         IN  IF Exists(envPath)
             THEN Bind(DotenvLoad(env, envPath),
                       LAMBDA l : TryFiles(l.env, dir, filesToTry, i + 1,
                                           found \/ l.err = NoErr))
             ELSE TryFiles(env, dir, filesToTry, i + 1, found)

\* The outer loop walking down from the root: the candidates of a directory
\* are tried after those of its parent.
RECURSIVE AscendRootFirst(_, _, _, _)
AscendRootFirst(env, dir, filesToTry, found) ==
    LET parentDir == Dir(dir)
    IN  IF parentDir = dir THEN TryFiles(env, dir, filesToTry, 1, found)
        ELSE Bind(AscendRootFirst(env, parentDir, filesToTry, found),
                  LAMBDA up : TryFiles(up.env, dir, filesToTry, 1, up.found))

\* The outer loop: the directory, then its parent, until a directory is its
\* own parent.
RECURSIVE Ascend(_, _, _, _)
Ascend(env, dir, filesToTry, found) ==
    LET parentDir == Dir(dir)
    IN  Bind(TryFiles(env, dir, filesToTry, 1, found),
             LAMBDA t : IF parentDir = dir THEN t
                        ELSE Ascend(t.env, parentDir, filesToTry, t.found))

\* loadEnvFromAncestors that fails when the walk loaded no file.
loadEnvFromAncestorsStrict(filesToTry, wd, env) ==
    IF wd = NoCwd
    THEN [env |-> env, found |-> FALSE, err |-> "getwd: no such file or directory"]
    ELSE Bind(Ascend(env, wd, filesToTry, FALSE),
              LAMBDA a : [env |-> a.env, found |-> a.found,
                          err |-> IF a.found THEN NoErr ELSE "no .env file found"])

\* Some candidate in the directory or above it exists and cannot be loaded.
RECURSIVE AnyUnloadable(_, _)
AnyUnloadable(dir, filesToTry) ==
    \/ \E i \in DOMAIN filesToTry :
           /\ Exists(Join(dir, filesToTry[i]))
           /\ ParsedEnvFiles[Join(dir, filesToTry[i])].err /= NoErr
    \/ Dir(dir) /= dir /\ AnyUnloadable(Dir(dir), filesToTry)

\* loadEnvFromAncestors that returns an error when a candidate that exists
\* cannot be loaded.
loadEnvFromAncestorsFailFast(filesToTry, wd, env) ==
    IF wd = NoCwd
    THEN [env |-> env, found |-> FALSE, err |-> "getwd: no such file or directory"]
    ELSE Bind(Ascend(env, wd, filesToTry, FALSE),
              LAMBDA a : [env |-> a.env, found |-> a.found,
                          err |-> IF AnyUnloadable(wd, filesToTry)
                                  THEN "cannot load environment file" ELSE NoErr])

\* loadEnvFromAncestors(filesToTry...)
loadEnvFromAncestors(filesToTry, wd, env) ==
    IF wd = NoCwd
    THEN [env |-> env, found |-> FALSE, err |-> "getwd: no such file or directory"]
    ELSE Bind(Ascend(env, wd, filesToTry, FALSE),
              LAMBDA a : [env |-> a.env, found |-> a.found, err |-> NoErr])

-----------------------------------------------------------------------------
(* The mapper (loadEnvToStruct)                                            *)

\* The trimming loop that also throws the empty parts away.
TrimAllDropEmpty(parts) ==
    SelectSeq([i \in DOMAIN parts |-> TrimSpace(parts[i])], LAMBDA p : p /= "")

\* The parts with the space around each trimmed away (strings.TrimSpace in
\* the loop over the parts).
TrimAll(parts) == [i \in DOMAIN parts |-> TrimSpace(parts[i])]

\* A switch with a default case that reports the kind.
NoCaseRejects(field, envVar, old) ==
    [val |-> old, err |-> "unsupported kind " \o field.kind \o " for " \o envVar]

\* The switch on fieldValue.Kind() has no case for the kind and no default:
\* nothing is assigned and nothing is returned.
NoCase(field, envVar, old) == [val |-> old, err |-> NoErr]

\* The switch with a slice case that appends the parts to the list the
\* field holds.
CoerceAppends(field, envVar, envValue, old) ==
    LET set(x) == [val |-> x, err |-> NoErr]
        fail(what, e) ==
            [val |-> old, err |-> "invalid " \o what \o " value for " \o envVar \o ": " \o e]
    IN  CASE field.kind = "string" -> set(envValue)
          [] field.kind = "int" ->
               LET r == ParseInt(envValue)
               IN  IF r.err /= NoErr THEN fail("integer", r.err) ELSE set(r.val)
          [] field.kind = "duration" ->
               LET r == ParseDuration(envValue)
               IN  IF r.err /= NoErr THEN fail("duration", r.err) ELSE set(r.val)
          [] field.kind = "int8" ->
               LET r == ParseInt(envValue)
               IN  IF r.err /= NoErr THEN fail("integer", r.err)
                   ELSE set(SetInt(Bits(field.kind), r.val))
          [] field.kind = "uint" ->
               LET r == ParseUint(envValue)
               IN  IF r.err /= NoErr THEN fail("unsigned integer", r.err) ELSE set(r.val)
          [] field.kind = "uint8" ->
               LET r == ParseUint(envValue)
               IN  IF r.err /= NoErr THEN fail("unsigned integer", r.err)
                   ELSE set(SetUint(Bits(field.kind), r.val))
          [] field.kind = "float" ->
               LET r == ParseFloat(envValue)
               IN  IF r.err /= NoErr THEN fail("float", r.err) ELSE set(r.val)
          [] field.kind = "bool" ->
               LET r == ParseBool(envValue)
               IN  IF r.err /= NoErr THEN fail("boolean", r.err) ELSE set(r.val)
          [] field.kind = "strings" -> set(old \o TrimAll(Split(envValue, ",")))
          [] OTHER -> NoCase(field, envVar, old)

\* The switch on the field's kind: the value the field gets from a non-empty
\* envValue, or the error that ends the mapping.  A field of a kind the
\* switch has no case for (a nested record) keeps its value.
Coerce(field, envVar, envValue, old) ==
    LET set(x) == [val |-> x, err |-> NoErr]
        fail(what, e) ==
            [val |-> old, err |-> "invalid " \o what \o " value for " \o envVar \o ": " \o e]
    IN  CASE field.kind = "string" -> set(envValue)
          [] field.kind = "int" ->
               LET r == ParseInt(envValue)
               IN  IF r.err /= NoErr THEN fail("integer", r.err) ELSE set(r.val)
          [] field.kind = "duration" ->
               LET r == ParseDuration(envValue)
               IN  IF r.err /= NoErr THEN fail("duration", r.err) ELSE set(r.val)
          [] field.kind = "int8" ->
               LET r == ParseInt(envValue)
               IN  IF r.err /= NoErr THEN fail("integer", r.err)
                   ELSE set(SetInt(Bits(field.kind), r.val))
          [] field.kind = "uint" ->
               LET r == ParseUint(envValue)
               IN  IF r.err /= NoErr THEN fail("unsigned integer", r.err) ELSE set(r.val)
          [] field.kind = "uint8" ->
               LET r == ParseUint(envValue)
               IN  IF r.err /= NoErr THEN fail("unsigned integer", r.err)
                   ELSE set(SetUint(Bits(field.kind), r.val))
          [] field.kind = "float" ->
               LET r == ParseFloat(envValue)
               IN  IF r.err /= NoErr THEN fail("float", r.err) ELSE set(r.val)
          [] field.kind = "bool" ->
               LET r == ParseBool(envValue)
               IN  IF r.err /= NoErr THEN fail("boolean", r.err) ELSE set(r.val)
          [] field.kind = "strings" -> set(TrimAll(Split(envValue, ",")))
          [] OTHER -> NoCase(field, envVar, old)

\* The field loop looking up the tag's name alone, without the prefix.
RECURSIVE MapFieldsNoPrefix(_, _, _, _, _, _)
MapFieldsNoPrefix(typ, c, prefix, tag, env, i) ==
    IF i > Len(Fields(typ)) THEN [config |-> c, err |-> NoErr]
    ELSE LET f        == Fields(typ)[i]
             envVar   == TagLookup(f, tag)
             envValue == Getenv(env, envVar.val)
         IN  IF ~f.exported \/ ~envVar.ok \/ envVar.val = "" \/ envValue = ""
             THEN MapFieldsNoPrefix(typ, c, prefix, tag, env, i + 1)
             ELSE LET r == Coerce(f, envVar.val, envValue, c[f.name])
                  IN  IF r.err /= NoErr
                      THEN [config |-> c, err |-> r.err]
                      ELSE MapFieldsNoPrefix(typ, [c EXCEPT ![f.name] = r.val],
                                             prefix, tag, env, i + 1)

\* The field loop without the check for an empty value: an unset or empty
\* variable is coerced like any other.
RECURSIVE MapFieldsClobber(_, _, _, _, _, _)
MapFieldsClobber(typ, c, prefix, tag, env, i) ==
    IF i > Len(Fields(typ)) THEN [config |-> c, err |-> NoErr]
    ELSE LET f        == Fields(typ)[i]
             envVar   == TagLookup(f, tag)
             envValue == Getenv(env, prefix \o envVar.val)
         IN  IF ~f.exported \/ ~envVar.ok \/ envVar.val = ""
             THEN MapFieldsClobber(typ, c, prefix, tag, env, i + 1)
             ELSE LET r == Coerce(f, envVar.val, envValue, c[f.name])
                  IN  IF r.err /= NoErr
                      THEN [config |-> c, err |-> r.err]
                      ELSE MapFieldsClobber(typ, [c EXCEPT ![f.name] = r.val],
                                            prefix, tag, env, i + 1)

\* The field loop without the check for an empty tag: a field annotated
\* with the empty string is bound to the variable named by the prefix alone.
RECURSIVE MapFieldsEmptyTag(_, _, _, _, _, _)
MapFieldsEmptyTag(typ, c, prefix, tag, env, i) ==
    IF i > Len(Fields(typ)) THEN [config |-> c, err |-> NoErr]
    ELSE LET f        == Fields(typ)[i]
             envVar   == TagLookup(f, tag)
             envValue == Getenv(env, prefix \o envVar.val)
         IN  IF ~f.exported \/ ~envVar.ok \/ envValue = ""
             THEN MapFieldsEmptyTag(typ, c, prefix, tag, env, i + 1)
             ELSE LET r == Coerce(f, envVar.val, envValue, c[f.name])
                  IN  IF r.err /= NoErr
                      THEN [config |-> c, err |-> r.err]
                      ELSE MapFieldsEmptyTag(typ, [c EXCEPT ![f.name] = r.val],
                                             prefix, tag, env, i + 1)

\* The field loop that does not stop at a coercion error: the fields after
\* the failing one are mapped all the same, and the first error is returned.
RECURSIVE MapFieldsKeepGoing(_, _, _, _, _, _)
MapFieldsKeepGoing(typ, c, prefix, tag, env, i) ==
    IF i > Len(Fields(typ)) THEN [config |-> c, err |-> NoErr]
    ELSE LET f        == Fields(typ)[i]
             envVar   == TagLookup(f, tag)
             envValue == Getenv(env, prefix \o envVar.val)
             rest(c1, e) ==
                 Bind(MapFieldsKeepGoing(typ, c1, prefix, tag, env, i + 1), LAMBDA m :
                      [config |-> m.config, err |-> IF e /= NoErr THEN e ELSE m.err])
         IN  IF ~f.exported THEN rest(c, NoErr)
             ELSE Bind(IF f.kind = "struct"
                       THEN MapFieldsKeepGoing(f.elem, c[f.name], prefix, tag, env, 1)
                       ELSE [config |-> c[f.name], err |-> NoErr],
                       LAMBDA sub :
                 IF sub.err /= NoErr
                 THEN rest([c EXCEPT ![f.name] = sub.config],
                           "error loading sub config field " \o f.name \o ": " \o sub.err)
                 ELSE IF ~envVar.ok \/ envVar.val = "" \/ envValue = ""
                 THEN rest([c EXCEPT ![f.name] = sub.config], NoErr)
                 ELSE Bind(Coerce(f, envVar.val, envValue, sub.config), LAMBDA r :
                          rest([c EXCEPT ![f.name] = r.val], r.err)))

\* The field loop that looks at the tag first: a field of struct kind that
\* has no tag, or an empty one, is passed over without being mapped.
RECURSIVE MapFieldsTagFirst(_, _, _, _, _, _)
MapFieldsTagFirst(typ, c, prefix, tag, env, i) ==
    IF i > Len(Fields(typ)) THEN [config |-> c, err |-> NoErr]
    ELSE LET f        == Fields(typ)[i]
             envVar   == TagLookup(f, tag)
             envValue == Getenv(env, prefix \o envVar.val)
         IN  IF ~f.exported \/ ~envVar.ok \/ envVar.val = ""
             THEN MapFieldsTagFirst(typ, c, prefix, tag, env, i + 1)
             ELSE Bind(IF f.kind = "struct"
                       THEN MapFieldsTagFirst(f.elem, c[f.name], prefix, tag, env, 1)
                       ELSE [config |-> c[f.name], err |-> NoErr],
                       LAMBDA sub :
                 IF sub.err /= NoErr
                 THEN [config |-> [c EXCEPT ![f.name] = sub.config],
                       err |-> "error loading sub config field " \o f.name \o ": "
                                   \o sub.err]
                 ELSE IF envValue = ""
                 THEN MapFieldsTagFirst(typ, [c EXCEPT ![f.name] = sub.config],
                                        prefix, tag, env, i + 1)
                 ELSE Bind(Coerce(f, envVar.val, envValue, sub.config), LAMBDA r :
                          IF r.err /= NoErr
                          THEN [config |-> [c EXCEPT ![f.name] = sub.config],
                                err |-> r.err]
                          ELSE MapFieldsTagFirst(typ, [c EXCEPT ![f.name] = r.val],
                                                 prefix, tag, env, i + 1)))

\* The loop over the fields of the record, from field i on.  A field that
\* is not settable is passed over.  A field of struct kind is mapped first,
\* with the same prefix and tag, and an error in it ends the loop.  Then a
\* field that has no tag or an empty tag, or whose variable is unset or
\* empty, is passed over; the others are coerced, and the first coercion
\* error ends the loop.
RECURSIVE MapFields(_, _, _, _, _, _)
MapFields(typ, c, prefix, tag, env, i) ==
    IF i > Len(Fields(typ)) THEN [config |-> c, err |-> NoErr]
    ELSE LET f        == Fields(typ)[i]
             envVar   == TagLookup(f, tag)
             envValue == Getenv(env, prefix \o envVar.val)
         IN  IF ~f.exported
             THEN MapFields(typ, c, prefix, tag, env, i + 1)
             ELSE Bind(IF f.kind = "struct"
                       THEN MapFields(f.elem, c[f.name], prefix, tag, env, 1)
                       ELSE [config |-> c[f.name], err |-> NoErr],
                       LAMBDA sub :
                 IF sub.err /= NoErr
                 THEN [config |-> [c EXCEPT ![f.name] = sub.config],
                       err |-> "error loading sub config field " \o f.name \o ": "
                                   \o sub.err]
                 ELSE IF ~envVar.ok \/ envVar.val = "" \/ envValue = ""
                 THEN MapFields(typ, [c EXCEPT ![f.name] = sub.config],
                                prefix, tag, env, i + 1)
                 ELSE Bind(Coerce(f, envVar.val, envValue, sub.config), LAMBDA r :
                          IF r.err /= NoErr
                          THEN [config |-> [c EXCEPT ![f.name] = sub.config],
                                err |-> r.err]
                          ELSE MapFields(typ, [c EXCEPT ![f.name] = r.val],
                                         prefix, tag, env, i + 1)))

loadEnvToStruct(typ, c, prefix, tag, env) == MapFields(typ, c, prefix, tag, env, 1)

-----------------------------------------------------------------------------
(* The Builder                                                             *)

\* LoadFile without its first check: a call on a builder that already holds
\* an error reads and decodes the file all the same.
LoadFileUnguarded(typ, c, e, path) ==
    IF path.isNil \/ path.s = "" THEN [config |-> c, err |-> e]
    ELSE LET f == ReadFile(path.s)
         IN  IF f.err /= NoErr
             THEN [config |-> c, err |-> "failed to read config file: " \o f.err]
             ELSE LET u == JSONUnmarshal(typ, f.data, c)
                  IN  IF u.err /= NoErr
                      THEN [config |-> u.config,
                            err |-> "failed to parse config file: " \o u.err]
                      ELSE [config |-> u.config, err |-> e]

\* LoadFile that checks its argument for nil only: the empty path is handed
\* to os.ReadFile like any other.
LoadFileReadsEmptyPath(typ, c, e, path) ==
    IF e /= NoErr THEN [config |-> c, err |-> e]
    ELSE IF path.isNil THEN [config |-> c, err |-> e]
    ELSE LET f == ReadFile(path.s)
         IN  IF f.err /= NoErr
             THEN [config |-> c, err |-> "failed to read config file: " \o f.err]
             ELSE LET u == JSONUnmarshal(typ, f.data, c)
                  IN  IF u.err /= NoErr
                      THEN [config |-> u.config,
                            err |-> "failed to parse config file: " \o u.err]
                      ELSE [config |-> u.config, err |-> e]

\* LoadFile that drops the error of json.Unmarshal: a file that was read
\* leaves the builder as Clean as it was.
LoadFileIgnoresParseError(typ, c, e, path) ==
    IF e /= NoErr THEN [config |-> c, err |-> e]
    ELSE IF path.isNil \/ path.s = "" THEN [config |-> c, err |-> e]
    ELSE LET f == ReadFile(path.s)
         IN  IF f.err /= NoErr
             THEN [config |-> c, err |-> "failed to read config file: " \o f.err]
             ELSE [config |-> JSONUnmarshal(typ, f.data, c).config, err |-> e]

\* LoadFile decoding onto a copy of the record and keeping the copy only
\* when the document decodes.
LoadFileRollsBack(typ, c, e, path) ==
    IF e /= NoErr THEN [config |-> c, err |-> e]
    ELSE IF path.isNil \/ path.s = "" THEN [config |-> c, err |-> e]
    ELSE LET f == ReadFile(path.s)
         IN  IF f.err /= NoErr
             THEN [config |-> c, err |-> "failed to read config file: " \o f.err]
             ELSE LET u == JSONUnmarshal(typ, f.data, c)
                  IN  IF u.err /= NoErr
                      THEN [config |-> c,
                            err |-> "failed to parse config file: " \o u.err]
                      ELSE [config |-> u.config, err |-> e]

\* Builder.LoadFile: the record and the error slot after the call.
LoadFileResult(typ, c, e, path) ==
    IF e /= NoErr THEN [config |-> c, err |-> e]
    ELSE IF path.isNil \/ path.s = "" THEN [config |-> c, err |-> e]
    ELSE LET f == ReadFile(path.s)
         IN  IF f.err /= NoErr
             THEN [config |-> c, err |-> "failed to read config file: " \o f.err]
             ELSE LET u == JSONUnmarshal(typ, f.data, c)
                  IN  IF u.err /= NoErr
                      THEN [config |-> u.config,
                            err |-> "failed to parse config file: " \o u.err]
                      ELSE [config |-> u.config, err |-> e]

\* WithEnv that unsets the variables under the prefix once the mapper has
\* read them.
WithEnvUnsetsVariables(typ, c, e, prefix, tag, files, wd, env) ==
    IF e /= NoErr THEN [config |-> c, err |-> e, env |-> env]
    ELSE Bind(loadEnvFromAncestors(files, wd, env), LAMBDA l :
             IF l.err /= NoErr
             THEN [config |-> c, env |-> l.env,
                   err |-> "failed to load environment variables: " \o l.err]
             ELSE Bind(loadEnvToStruct(typ, c, prefix, tag, l.env), LAMBDA m :
                      IF m.err /= NoErr
                      THEN [config |-> m.config, env |-> l.env,
                            err |-> "failed to override configuration from environment: "
                                        \o m.err]
                      ELSE [config |-> m.config, err |-> e,
                            env |-> [k \in { x \in DOMAIN l.env : ~HasPrefix(x, prefix) }
                                        |-> l.env[k]]]))

\* WithEnv running the mapper on the environment as it is and the locator
\* after it.
WithEnvMapsFirst(typ, c, e, prefix, tag, files, wd, env) ==
    IF e /= NoErr THEN [config |-> c, err |-> e, env |-> env]
    ELSE Bind(loadEnvFromAncestors(files, wd, env), LAMBDA l :
             IF l.err /= NoErr
             THEN [config |-> c, env |-> l.env,
                   err |-> "failed to load environment variables: " \o l.err]
             ELSE Bind(loadEnvToStruct(typ, c, prefix, tag, env), LAMBDA m :
                      IF m.err /= NoErr
                      THEN [config |-> m.config, env |-> l.env,
                            err |-> "failed to override configuration from environment: "
                                        \o m.err]
                      ELSE [config |-> m.config, env |-> l.env, err |-> e]))

\* WithEnv that runs the locator before it looks at the error slot.
WithEnvLocatesFirst(typ, c, e, prefix, tag, files, wd, env) ==
    Bind(loadEnvFromAncestors(files, wd, env), LAMBDA l :
        IF e /= NoErr THEN [config |-> c, err |-> e, env |-> l.env]
        ELSE IF l.err /= NoErr
             THEN [config |-> c, env |-> l.env,
                   err |-> "failed to load environment variables: " \o l.err]
             ELSE Bind(loadEnvToStruct(typ, c, prefix, tag, l.env), LAMBDA m :
                      IF m.err /= NoErr
                      THEN [config |-> m.config, env |-> l.env,
                            err |-> "failed to override configuration from environment: "
                                        \o m.err]
                      ELSE [config |-> m.config, env |-> l.env, err |-> e]))

\* Builder.WithEnv: the record, the error slot and the process environment
\* after the call.
WithEnvResult(typ, c, e, prefix, tag, files, wd, env) ==
    IF e /= NoErr THEN [config |-> c, err |-> e, env |-> env]
    ELSE Bind(loadEnvFromAncestors(files, wd, env), LAMBDA l :
             IF l.err /= NoErr
             THEN [config |-> c, env |-> l.env,
                   err |-> "failed to load environment variables: " \o l.err]
             ELSE Bind(loadEnvToStruct(typ, c, prefix, tag, l.env), LAMBDA m :
                      IF m.err /= NoErr
                      THEN [config |-> m.config, env |-> l.env,
                            err |-> "failed to override configuration from environment: "
                                        \o m.err]
                      ELSE [config |-> m.config, env |-> l.env, err |-> e]))

\* What Build returns: the zero value of T (a nil pointer) and an error, or
\* the builder's record and no error.
ZeroT(e) == [called |-> TRUE, isZero |-> TRUE, err |-> e]

\* Build that validates before it looks at the error slot.
BuildValidatesFirst(typ, c, e) ==
    LET v == ValidateStruct(typ, c)
    IN  IF v /= NoErr THEN ZeroT("invalid configuration: " \o v)
        ELSE IF e /= NoErr THEN ZeroT(e)
             ELSE [called |-> TRUE, isZero |-> FALSE, val |-> c, err |-> NoErr]

\* Build that hands back the record next to the error.
BuildKeepsRecord(typ, c, e) ==
    IF e /= NoErr THEN [called |-> TRUE, isZero |-> FALSE, val |-> c, err |-> e]
    ELSE LET v == ValidateStruct(typ, c)
         IN  IF v /= NoErr
             THEN [called |-> TRUE, isZero |-> FALSE, val |-> c,
                   err |-> "invalid configuration: " \o v]
             ELSE [called |-> TRUE, isZero |-> FALSE, val |-> c, err |-> NoErr]

\* Build that returns the record without validating it.
BuildSkipsValidation(typ, c, e) ==
    IF e /= NoErr THEN ZeroT(e)
    ELSE [called |-> TRUE, isZero |-> FALSE, val |-> c, err |-> NoErr]

BuildResult(typ, c, e) ==
    IF e /= NoErr THEN ZeroT(e)
    ELSE LET v == ValidateStruct(typ, c)
         IN  IF v /= NoErr THEN ZeroT("invalid configuration: " \o v)
             ELSE [called |-> TRUE, isZero |-> FALSE, val |-> c, err |-> NoErr]

NoRet == [called |-> FALSE]

\* A call the builder makes on the world around it.
Invocation(fn, arg) == [fn |-> fn, arg |-> arg]

\* What a LoadFile call invokes: os.ReadFile of the path, unless the call
\* returns before it.
LoadFileInvokes(e, path) ==
    IF e /= NoErr THEN << >>
    ELSE IF path.isNil \/ path.s = "" THEN << >>
    ELSE << Invocation("os.ReadFile", path.s) >>

\* What a WithEnv call invokes: the locator asks for the working directory,
\* unless the call returns before it.
WithEnvInvokes(e) ==
    IF e /= NoErr THEN << >> ELSE << Invocation("os.Getwd", "") >>

\* What a Build call invokes when it validates whatever the error slot
\* holds.
BuildInvokesAlways(typ, e) == << Invocation("validator.Struct", typ) >>

\* What a Build call invokes: the struct validator on the record, unless
\* the call returns the builder's error before it.
BuildInvokes(typ, e) ==
    IF e /= NoErr THEN << >> ELSE << Invocation("validator.Struct", typ) >>

-----------------------------------------------------------------------------
(* The inputs                                                              *)

\* Variables a test sets before it makes the builder, with values to set.
EnvChoices(typ) ==
    CASE typ = "testConfig" ->
           { << "TEST_NAME", "" >>, << "TEST_NAME", "env-app" >>,
             << "TEST_PORT", "6060" >>, << "TEST_PORT", "not-an-int" >>,
             << "TEST_ENABLED", "false" >>,
             << "TEST_FACTOR", "" >>, << "TEST_FACTOR", "3.14" >>,
             << "TEST_MAX_CONNS", "200" >>, << "TEST_MAX_CONNS", "-1" >>,
             << "TEST_TAGS", "env, tag1 ,,tag2" >> }
      [] typ = "DB" ->
           { << "TEST_DB_DSN", "" >>, << "TEST_DB_DSN", "postgres://env" >>,
             << "TEST_DB_LOG_LEVEL", "error" >>, << "TEST_DB_LOG_LEVEL", "debug" >> }
      [] typ = "TestConfigWithNested" -> { << "TEST_VALUE", "nested-value" >> }
      [] typ = "AppConfig" -> { << "TEST_WAIT", "invalid-duration" >> }
      [] typ = "ServiceConfig" -> { << "TEST_PORTS", "80,443" >> }
      [] OTHER -> { }

\* What every process environment holds.
BaseEnv == ( "HOME" :> "/root" )

\* BaseEnv with the chosen variables set (os.Setenv in the order given; a
\* set of choices that sets one variable twice is not a choice).
EnvWith(choices) ==
    [k \in DOMAIN BaseEnv \cup { x[1] : x \in choices } |->
        IF k \in DOMAIN BaseEnv THEN BaseEnv[k]
        ELSE (CHOOSE x \in choices : x[1] = k)[2]]

\* Several variables set together, as setEnvVars does.
EnvGroups(typ) ==
    CASE typ = "testConfig" ->
           { { << "TEST_NAME", "env-app" >>, << "TEST_PORT", "6060" >> },
             { << "TEST_PORT", "not-an-int" >>, << "TEST_MAX_CONNS", "-1" >> },
             { << "TEST_NAME", "" >>, << "TEST_FACTOR", "3.14" >> } }
      [] typ = "DB" ->
           { { << "TEST_DB_DSN", "postgres://env" >>, << "TEST_DB_LOG_LEVEL", "error" >> } }
      [] typ = "TestConfigWithNested" ->
           { { << "TEST_NESTED_VALUE", "other-name" >>, << "TEST_NESTED", "nesting" >>,
               << "TEST_Nested", "nesting" >> } }
      [] typ = "TestConfigWithUnexported" ->
           { { << "TEST_NAME", "new-name" >>,
               << "TEST_UNEXPORTED", "should-be-ignored" >> } }
      [] typ = "TestConfigNoTags" ->
           { { << "TEST_NAME", "new-name" >>, << "TEST_", "empty-name" >>,
               << "TEST_NoTag", "field-name" >>, << "TEST_NOTAG", "field-name" >>,
               << "TEST_EmptyTag", "field-name" >>,
               << "TEST_EMPTYTAG", "field-name" >> } }
      [] typ = "AppConfig" ->
           { { << "TEST_NAME", "app" >>, << "TEST_SMALL", "300" >>,
               << "TEST_AFTER", "later" >> },
             { << "TEST_NAME", "app" >>, << "TEST_SMALL", "-12" >>,
               << "TEST_BYTE", "not-a-byte" >>, << "TEST_WAIT", "45s" >>,
               << "TEST_VALUE", "inner-value" >>, << "TEST_AFTER", "later" >> },
             { << "TEST_LIMITS", "nesting" >>, << "TEST_LIMITS_SMALL", "5" >>,
               << "TEST_SMALL", "7" >>, << "TEST_BYTE", "256" >>,
               << "TEST_WAIT", "1h5m30s" >> } }
      [] typ = "ServiceConfig" ->
           { { << "TEST_NAME", "svc" >>, << "TEST_LABELS", "tier=silver" >>,
               << "TEST_PARENT", "root" >>, << "TEST_PORTS", "80,443" >>,
               << "TEST_LIMITS", "nesting" >>, << "TEST_SMALL", "7" >>,
               << "TEST_AFTER", "later" >> },
             { << "TEST_LABELS", "tier=silver" >>, << "TEST_PORTS", "not-a-port" >>,
               << "TEST_LIMITS", "nesting" >>, << "TEST_BYTE", "not-a-byte" >>,
               << "TEST_AFTER", "later" >> } }

\* The environments a process starts in: nothing set, one variable set, or
\* one of the groups.
RealEnvs(typ) ==
    { EnvWith(ch) : ch \in { {} } \cup { { x } : x \in EnvChoices(typ) }
                              \cup EnvGroups(typ) }

\* Candidate lists given to WithEnvFiles.
EnvFileLists ==
    { << ".env.test1", ".env.test2" >>, << ".env.test2", ".env.test1" >>,
      << ".env" >> }

\* Where the process runs and which candidates the caller names: the
\* deepest directory with every list, its parent, no candidates at all,
\* candidates that exist nowhere, and a working directory that cannot be
\* determined.
Layouts ==
    { [wd |-> "/srv/app", files |-> l] : l \in EnvFileLists }
        \cup { [wd |-> "/srv", files |-> << ".env.test2", ".env.test1" >>],
               [wd |-> "/srv/app", files |-> << >>],
               [wd |-> "/srv/app",
                files |-> << "non-existent-1.env", "non-existent-2.env" >>],
               [wd |-> NoCwd, files |-> << ".env.test1", ".env.test2" >>] }

\* The layouts each record type is resolved in: every one for testConfig and
\* DB, and for the other types one with environment files and one without.
LayoutsOf(typ) ==
    IF typ \in { "testConfig", "DB" } THEN Layouts
    ELSE { [wd |-> "/srv/app", files |-> << ".env.test1", ".env.test2" >>],
           [wd |-> "/srv/app", files |-> << >>] }

-----------------------------------------------------------------------------
(* The state machine                                                       *)

\* New(defaultConfig, WithEnvPrefix("TEST_"), WithEnvFiles(files...)) in a
\* process with some environment and working directory.
Init ==
    /\ recType \in RecTypes
    /\ defaultCfg \in Defaults(recType)
    /\ config = defaultCfg
    /\ err = NoErr
    /\ envPrefix = "TEST_"
    /\ envTag = "env"
    /\ \E l \in LayoutsOf(recType) : cwd = l.wd /\ envFiles = l.files
    /\ realEnv \in RealEnvs(recType)
    /\ environ = realEnv
    /\ ret = NoRet
    /\ chain = << >>
    /\ builtAt = 0 - 1
    /\ firstErr = NoErr
    /\ invoked = << >>
    /\ resolvers = Unused /\ walk = Unused /\ options = Unused
    /\ keycloak = Unused /\ logcfg = Unused /\ earlier = Unused

Latch(e) == IF firstErr = NoErr THEN e ELSE firstErr

LoadFile(path) ==
    /\ Len(chain) < MaxCalls
    /\ \E r \in { LoadFileResult(recType, config, err, path) } :
           /\ config' = r.config
           /\ err' = r.err
           /\ firstErr' = Latch(r.err)
    /\ invoked' = LoadFileInvokes(err, path)
    /\ chain' = Append(chain, [op |-> "LoadFile", path |-> path])
    /\ UNCHANGED << recType, envPrefix, envTag, envFiles, environ, cwd, ret,
                    builtAt, defaultCfg, realEnv, auxVars >>

\* Build that latches a validation failure in the builder's error slot.
BuildLatchesValidation ==
    /\ ret' = BuildResult(recType, config, err)
    /\ builtAt' = Len(chain)
    /\ invoked' = BuildInvokes(recType, err)
    /\ \E r \in { BuildResult(recType, config, err) } :
           /\ err' = r.err
           /\ firstErr' = Latch(r.err)
    /\ UNCHANGED << recType, config, envPrefix, envTag, envFiles, environ,
                    cwd, chain, defaultCfg, realEnv, auxVars >>

WithEnv ==
    /\ Len(chain) < MaxCalls
    /\ \E r \in { WithEnvResult(recType, config, err, envPrefix, envTag, envFiles,
                                 cwd, environ) } :
           /\ config' = r.config
           /\ err' = r.err
           /\ environ' = r.env
           /\ firstErr' = Latch(r.err)
    /\ invoked' = WithEnvInvokes(err)
    /\ chain' = Append(chain, [op |-> "WithEnv"])
    /\ UNCHANGED << recType, envPrefix, envTag, envFiles, cwd, ret,
                    builtAt, defaultCfg, realEnv, auxVars >>

\* Build that hands the record over and leaves the builder with the default.
BuildHandsOver ==
    /\ ret' = BuildResult(recType, config, err)
    /\ builtAt' = Len(chain)
    /\ invoked' = BuildInvokes(recType, err)
    /\ config' = defaultCfg
    /\ UNCHANGED << recType, err, envPrefix, envTag, envFiles, environ,
                    cwd, chain, defaultCfg, realEnv, firstErr, auxVars >>

Build ==
    /\ ret' = BuildResult(recType, config, err)
    /\ builtAt' = Len(chain)
    /\ invoked' = BuildInvokes(recType, err)
    /\ UNCHANGED << recType, config, err, envPrefix, envTag, envFiles, environ,
                    cwd, chain, defaultCfg, realEnv, firstErr, auxVars >>

Next ==
    \/ \E path \in Paths : LoadFile(path)
    \/ WithEnv
    \/ Build

Spec == Init /\ [][Next]_vars

-----------------------------------------------------------------------------
(* Properties of the builder                                               *)

LoadFileCall(path) == [op |-> "LoadFile", path |-> path]

\* The fields of a record type that hold a value of their own, nested ones
\* included, in depth-first declaration order.  Each comes with the names
\* that lead to it and whether it can be set: it and every record around it
\* is exported.
RECURSIVE LeavesFrom(_, _, _, _)
LeavesFrom(typ, i, path, settable) ==
    IF i > Len(Fields(typ)) THEN << >>
    ELSE LET f == Fields(typ)[i]
         IN  (IF f.kind = "struct"
              THEN LeavesFrom(f.elem, 1, Append(path, f.name), settable /\ f.exported)
              ELSE << [path |-> Append(path, f.name), field |-> f,
                       settable |-> settable /\ f.exported] >>)
                 \o LeavesFrom(typ, i + 1, path, settable)

LeafTable == [typ \in RecTypes |-> LeavesFrom(typ, 1, << >>, TRUE)]

Leaves == LeafTable[recType]

\* The value a record holds at a leaf.
RECURSIVE At(_, _)
At(c, path) == IF Len(path) = 1 THEN c[path[1]] ELSE At(c[path[1]], Tail(path))

\* The name a leaf's field is bound to under the configured tag, and whether
\* the leaf is bound at all: it can be set and the name is not empty.
EnvName(l) == TagLookup(l.field, envTag).val

Bound(l) == l.settable /\ TagLookup(l.field, envTag).ok /\ EnvName(l) /= ""

\* A field of the record itself, as opposed to one of a nested record.
TopLevel(l) == Len(l.path) = 1

WithEnvCall == [op |-> "WithEnv"]

\* The step is a chain call (LoadFile or WithEnv), as opposed to Build.
ChainStep == chain' /= chain

\* C1 (error latch): once the builder holds an error, every LoadFile and
\* WithEnv call, whatever its path and whatever the environment, leaves the
\* record, the error, the prefix, the tag name and the candidate list as they
\* were; in particular the error is never cleared.
C1_ErrorLatch ==
    [][ (err /= NoErr /\ ChainStep) =>
            /\ config' = config
            /\ err' = err
            /\ envPrefix' = envPrefix
            /\ envTag' = envTag
            /\ envFiles' = envFiles ]_vars

\* A failed LoadFile followed by a LoadFile of a good document: the builder
\* still holds the read error and the record is the default.
C1_Witness ==
    /\ chain = << LoadFileCall(Ptr("/nonexistent/file.json")),
                  LoadFileCall(Ptr("/etc/app/config.json")) >>
    /\ err = "failed to read config file: open /nonexistent/file.json: no such file or directory"
    /\ config = defaultCfg

\* Build was the last call made on the builder, so ret is what it returned
\* for the builder as it is now.
JustBuilt == ret.called /\ builtAt = Len(chain)

ValidationErrorPrefix == "invalid configuration: "

\* C2 (first error wins): when some step of the chain failed, Build returns
\* the zero value and exactly the error of the first step that failed, never
\* the error of a later step and never a validation error.
C2_FirstErrorWins ==
    (JustBuilt /\ firstErr /= NoErr) =>
        /\ ret.isZero
        /\ ret.err = firstErr
        /\ ~HasPrefix(ret.err, ValidationErrorPrefix)

\* A DB record whose required DSN is empty, a LoadFile that cannot read its
\* file, a LoadFile of a document that would not decode, then Build: the
\* read error comes back, not the parse error nor a validation error.
C2_Witness ==
    /\ recType = "DB" /\ config.DSN = ""
    /\ chain = << LoadFileCall(Ptr("/nonexistent/file.json")),
                  LoadFileCall(Ptr("/etc/app/mistyped.json")) >>
    /\ JustBuilt
    /\ ret.err = "failed to read config file: open /nonexistent/file.json: no such file or directory"

\* C3 (no partial record): Build returns the record and no error, or the
\* zero value of the record type and an error; a record never comes with an
\* error, whichever step the error is from.
C3_ZeroOrRecord ==
    ret.called =>
        \/ ret.isZero /\ ret.err /= NoErr
        \/ ~ret.isZero /\ ret.err = NoErr /\ (JustBuilt => ret.val = config)

\* The mapper failed after it had already changed the record: the builder
\* holds a partly overlaid record, and Build returned the zero value.
C3_Witness ==
    /\ JustBuilt /\ ret.isZero
    /\ HasPrefix(ret.err, "failed to override configuration from environment: ")
    /\ config /= defaultCfg

\* What the validate tags of the record type ask of a record, said field by
\* field: testConfig carries no validate tag; DB requires a DSN and takes a
\* log level and a log format from fixed lists, or none.
TagsSatisfied(typ, c) ==
    typ = "DB" =>
        /\ c.DSN /= ""
        /\ c.LogLevel \in { "", "silent", "error", "warn", "info" }
        /\ c.LogFormat \in { "", "text", "json" }

HasDocument(path) ==
    ~path.isNil /\ path.s \in DOMAIN JsonFiles /\ JsonFiles[path.s].valid

\* The members of the document at path, in the order of the text.
Object(path) == JsonFiles[path.s].object

\* x is the value of field f that the JSON value v stands for: a string, a
\* number, a boolean or a list of strings of the field's kind; null stands
\* for the empty list and for no string, number or boolean.
Denotes(f, v, x) ==
    CASE v.t = "string" -> f.kind = "string" /\ x = v.s
      [] v.t = "bool"   -> f.kind = "bool" /\ x = v.b
      [] v.t = "number" ->
           \/ f.kind = "int" /\ ParseInt(v.lit).err = NoErr /\ x = ParseInt(v.lit).val
           \/ f.kind = "uint" /\ ParseUint(v.lit).err = NoErr /\ x = ParseUint(v.lit).val
           \/ f.kind = "float" /\ ParseFloat(v.lit).err = NoErr /\ x = ParseFloat(v.lit).val
      [] v.t = "array"  ->
           f.kind = "strings" /\ x = [i \in DOMAIN v.elems |-> v.elems[i].s]
      [] v.t = "null"   -> f.kind = "strings" /\ x = << >>

\* The members of the document whose key is, letter for letter, the key of f.
ExactMembers(path, f) ==
    { i \in DOMAIN Object(path) : Object(path)[i].key = JsonKey(f) }

\* The key names field f: it is the key of f, or it is the key of no field
\* and equal to the key of f when the case of the letters is ignored.
Names(key, f) ==
    \/ JsonKey(f) = key
    \/ /\ \A i \in DOMAIN Fields(recType) : JsonKey(Fields(recType)[i]) /= key
       /\ ToLower(JsonKey(f)) = ToLower(key)

\* The members of the document that give field f a value: their key names
\* f and their value is not a null for a string, number or boolean field.
ValueMembers(path, f) ==
    { i \in DOMAIN Object(path) :
        /\ Names(Object(path)[i].key, f)
        /\ (Object(path)[i].val.t = "null" => f.kind = "strings") }

Last(S) == CHOOSE i \in S : \A j \in S : j <= i

\* x is what field f holds when the document at path is laid over pre: the
\* value of the last of the given members, or pre when there is none.
Overlaid(f, path, members, x, pre) ==
    IF members /= {} THEN Denotes(f, Object(path)[Last(members)].val, x)
    ELSE x = pre

\* x is what field f holds in the layering default -> document ->
\* environment, the document's part of it given by docPart(f, x).
Layered(l, x, docPart(_, _)) ==
    LET key == envPrefix \o EnvName(l)
    IN  IF Bound(l) /\ Getenv(environ, key) /= ""
        THEN x = Coerce(l.field, EnvName(l), Getenv(environ, key), x).val
        ELSE docPart(l, x)

\* C5 as stated (layered precedence): when New(default).LoadFile(f)
\* .WithEnv().Build() succeeds, every field of the result is the coerced
\* environment value if its variable is set and not empty, else the
\* document's value if the document contains the field's key, else the
\* default.
C5_LayeredPrecedenceAsStated ==
    \A path \in Paths :
        (chain = << LoadFileCall(path), WithEnvCall >> /\ JustBuilt /\ ~ret.isZero) =>
            \A i \in DOMAIN Leaves :
                LET l == Leaves[i]
                    doc(g, x) ==
                        IF HasDocument(path) /\ TopLevel(g)
                        THEN Overlaid(g.field, path, ExactMembers(path, g.field), x,
                                      At(defaultCfg, g.path))
                        ELSE x = At(defaultCfg, g.path)
                IN  Layered(l, At(ret.val, l.path), doc)

\* C5 (layered precedence, amended): when New(default).LoadFile(f).WithEnv()
\* .Build() succeeds, every field of the result is the coerced environment
\* value if its variable is set and not empty, else the value of the last
\* member of the document that names the field (exactly, or ignoring case
\* when no field has the key exactly) and is not a null for a string, number
\* or boolean field, else the default.
C5_LayeredPrecedence ==
    \A path \in Paths :
        (chain = << LoadFileCall(path), WithEnvCall >> /\ JustBuilt /\ ~ret.isZero) =>
            \A i \in DOMAIN Leaves :
                LET l == Leaves[i]
                    doc(g, x) ==
                        IF HasDocument(path) /\ TopLevel(g)
                        THEN Overlaid(g.field, path, ValueMembers(path, g.field), x,
                                      At(defaultCfg, g.path))
                        ELSE x = At(defaultCfg, g.path)
                IN  Layered(l, At(ret.val, l.path), doc)

\* The chained-operations test: the name and the factor from the document,
\* the port from the environment, the switch from the default.
C5_Witness ==
    /\ recType = "testConfig"
    /\ chain = << LoadFileCall(Ptr("/etc/app/config.json")), WithEnvCall >>
    /\ JustBuilt /\ ~ret.isZero
    /\ ret.val.Name = "file-app" /\ ret.val.Factor = Decimal(2, 0)
    /\ ret.val.Port = 6060 /\ defaultCfg.Port = 8080
    /\ ret.val.Enabled = defaultCfg.Enabled

\* WithEnv was the last chain call and the builder is Clean: the locator
\* and the mapper both ran in that call and neither failed.
WithEnvApplied ==
    Len(chain) >= 1 /\ chain[Len(chain)] = WithEnvCall /\ err = NoErr

\* C6 (the real environment wins): a variable that was set and not empty in
\* the process environment before the resolution keeps its value, and the
\* field bound to it is that value coerced, whatever files the locator found
\* and in whatever order.
C6_RealEnvWins ==
    WithEnvApplied =>
        \A i \in DOMAIN Leaves :
            LET l   == Leaves[i]
                key == envPrefix \o EnvName(l)
            IN  (Bound(l) /\ key \in DOMAIN realEnv /\ realEnv[key] /= "") =>
                    /\ environ[key] = realEnv[key]
                    /\ At(config, l.path) =
                           Coerce(l.field, EnvName(l), realEnv[key],
                                  At(config, l.path)).val

\* The name is set in the real environment, in /srv/app/.env.test1 (nearer)
\* and in /.env.test2 (farther); both files were loaded, since the port came
\* from the first and the tags from the second; the name is the real one.
C6_Witness ==
    /\ recType = "testConfig" /\ chain = << WithEnvCall >> /\ err = NoErr
    /\ cwd = "/srv/app" /\ envFiles = << ".env.test1", ".env.test2" >>
    /\ "TEST_NAME" \in DOMAIN realEnv /\ realEnv["TEST_NAME"] = "env-app"
    /\ config.Name = "env-app"
    /\ config.Port = 1111 /\ config.Tags = << "root", "tag" >>

\* The directories the locator visits: the working directory, then each
\* parent up to the root.
RECURSIVE Ancestors(_)
Ancestors(dir) ==
    IF Dir(dir) = dir THEN << dir >> ELSE << dir >> \o Ancestors(Dir(dir))

\* A candidate is a directory of the walk and a name of the list; it comes
\* before another when its directory is nearer, or in the same directory
\* when its name is earlier in the list.
Candidates == { << d, n >> : d \in DOMAIN Ancestors(cwd), n \in DOMAIN envFiles }

ComesBefore(a, b) == a[1] < b[1] \/ (a[1] = b[1] /\ a[2] < b[2])

CandidatePath(a) == Join(Ancestors(cwd)[a[1]], envFiles[a[2]])

\* The candidate exists, can be loaded and assigns the key.
Supplies(a, key) ==
    /\ CandidatePath(a) \in DOMAIN EnvFileSystem
    /\ ParsedEnvFiles[CandidatePath(a)].err = NoErr
    /\ key \in AssignedKeys(ParsedEnvFiles[CandidatePath(a)].assigns)

FileKeys ==
    UNION { AssignedKeys(ParsedEnvFiles[p].assigns) : p \in DOMAIN ParsedEnvFiles }

\* C7 (first found wins): when WithEnv runs the locator, a key the
\* environment did not hold gets the value of the first loadable candidate
\* that assigns it, in the order directory then name; that holds for a key
\* only a later file assigns; a key no loadable candidate assigns stays unset.
C7_FirstFoundWins ==
    [][ (chain' = Append(chain, WithEnvCall) /\ err = NoErr /\ cwd /= NoCwd) =>
            \A key \in FileKeys \ DOMAIN environ :
                IF \E a \in Candidates : Supplies(a, key)
                THEN LET first == CHOOSE a \in Candidates :
                                      /\ Supplies(a, key)
                                      /\ \A b \in Candidates :
                                             Supplies(b, key) => ~ComesBefore(b, a)
                     IN  /\ key \in DOMAIN environ'
                         /\ environ'[key] =
                                AssignedValue(ParsedEnvFiles[CandidatePath(first)].assigns, key)
                ELSE key \notin DOMAIN environ' ]_vars

\* From /srv/app with .env.test2 named first: the port is that file's (not
\* .env.test1's, not the parent's), the name comes from .env.test1, the later
\* file of the same directory (not from the root), and the switch from the
\* parent directory, the only place that assigns it.
C7_Witness ==
    /\ chain = << WithEnvCall >> /\ cwd = "/srv/app"
    /\ envFiles = << ".env.test2", ".env.test1" >>
    /\ DOMAIN realEnv = DOMAIN BaseEnv
    /\ { "TEST_PORT", "TEST_NAME", "TEST_ENABLED" } \subseteq DOMAIN environ
    /\ environ["TEST_PORT"] = "2222"
    /\ environ["TEST_NAME"] = "name-from-file1"
    /\ environ["TEST_ENABLED"] = "false"

\* The variables the fields of the record are bound to.
BoundVariables ==
    { envPrefix \o EnvName(Leaves[i]) : i \in { j \in DOMAIN Leaves : Bound(Leaves[j]) } }

\* The locator searched from the working directory and loaded no file: no
\* candidate in any directory of the walk exists and can be loaded.
NoCandidateFound ==
    /\ cwd /= NoCwd
    /\ \A a \in Candidates :
           ~(/\ CandidatePath(a) \in DOMAIN EnvFileSystem
             /\ ParsedEnvFiles[CandidatePath(a)].err = NoErr)

\* C8 (defaults pass through): for a default record that satisfies its
\* validation tags, New(default).Build() returns the default record and no
\* error, and so does New(default).WithEnv().Build() when no bound variable
\* is set and the locator finds no candidate file.
C8_DefaultsUnchanged ==
    ( /\ JustBuilt
      /\ TagsSatisfied(recType, defaultCfg)
      /\ \/ chain = << >>
         \/ /\ chain = << WithEnvCall >>
            /\ BoundVariables \cap DOMAIN realEnv = {}
            /\ NoCandidateFound ) =>
        /\ ~ret.isZero /\ ret.err = NoErr
        /\ ret.val = defaultCfg
        /\ config = defaultCfg

\* The populated DB default through WithEnv and Build, the candidate names
\* existing in no directory of the walk.
C8_Witness ==
    /\ recType = "DB" /\ defaultCfg.DSN = "postgres://default"
    /\ chain = << WithEnvCall >> /\ JustBuilt
    /\ envFiles = << "non-existent-1.env", "non-existent-2.env" >>
    /\ realEnv = BaseEnv /\ environ = BaseEnv
    /\ ~ret.isZero /\ ret.val = defaultCfg

\* C9 as stated (JSON overlay frame): after a successful LoadFile of a
\* document, every field whose key is in the document equals the document's
\* value, and every field whose key is not in it keeps the value it had
\* before the call.
C9_OverlayFrameAsStated ==
    [][ \A path \in Paths :
          ( /\ chain' = Append(chain, LoadFileCall(path))
            /\ HasDocument(path) /\ err = NoErr /\ err' = NoErr ) =>
              \A i \in DOMAIN Leaves :
                  LET l == Leaves[i]
                  IN  IF TopLevel(l)
                      THEN Overlaid(l.field, path, ExactMembers(path, l.field),
                                    At(config', l.path), At(config, l.path))
                      ELSE At(config', l.path) = At(config, l.path) ]_vars

\* C9 (JSON overlay frame, amended): after a successful LoadFile of a
\* document, a field equals the value of the last member that names it
\* (exactly, or ignoring case when no field has the key exactly) and is not
\* a null for a string, number or boolean field; a field with no such member
\* keeps the value it had before the call; the record has the same fields,
\* so a member that names no field changes nothing.
C9_OverlayFrame ==
    [][ \A path \in Paths :
          ( /\ chain' = Append(chain, LoadFileCall(path))
            /\ HasDocument(path) /\ err = NoErr /\ err' = NoErr ) =>
              /\ DOMAIN config' = DOMAIN config
              /\ \A i \in DOMAIN Leaves :
                   LET l == Leaves[i]
                   IN  IF TopLevel(l)
                       THEN Overlaid(l.field, path, ValueMembers(path, l.field),
                                     At(config', l.path), At(config, l.path))
                       ELSE At(config', l.path) = At(config, l.path) ]_vars

\* LoadFile of nulls.json after WithEnv set the port from the environment:
\* the port, null in the document, keeps the environment's value, the name
\* is that of the last of the two name members, the switch is set through
\* the key "Enabled", the tags are emptied by null and the factor, not in
\* the document, keeps the default.
C9_Witness ==
    /\ recType = "testConfig" /\ err = NoErr
    /\ chain = << WithEnvCall, LoadFileCall(Ptr("/etc/app/nulls.json")) >>
    /\ config.Port = 6060 /\ defaultCfg.Port = 8080
    /\ config.Name = "null-app"
    /\ config.Enabled = FALSE /\ defaultCfg.Enabled = TRUE
    /\ config.Tags = << >> /\ defaultCfg.Tags /= << >>
    /\ config.Factor = defaultCfg.Factor

\* C10 (no clobbering with emptiness): in a WithEnv call a field whose
\* variable prefix+name is unset or empty when the mapper reads it keeps the
\* value it had before the call; such a variable is never the cause of an
\* error: a Clean builder whose locator ran is poisoned by the call only
\* through a variable that is set, not empty, and fails to coerce.
C10_NoClobber ==
    [][ chain' = Append(chain, WithEnvCall) =>
          /\ \A i \in DOMAIN Leaves :
               LET l == Leaves[i]
               IN  (Bound(l) /\ Getenv(environ', envPrefix \o EnvName(l)) = "") =>
                       At(config', l.path) = At(config, l.path)
          /\ (err = NoErr /\ cwd /= NoCwd /\ err' /= NoErr) =>
               \E i \in DOMAIN Leaves :
                   LET l == Leaves[i]
                       v == Getenv(environ', envPrefix \o EnvName(l))
                   IN  /\ Bound(l) /\ v /= ""
                       /\ Coerce(l.field, EnvName(l), v,
                                 At(config, l.path)).err /= NoErr ]_vars

\* The name set to the empty string in the real environment (so that no
\* file supplies it), overlaid on the document's name: the name stays the
\* document's, and the call is no error.
C10_Witness ==
    /\ recType = "testConfig" /\ err = NoErr
    /\ chain = << LoadFileCall(Ptr("/etc/app/config.json")), WithEnvCall >>
    /\ "TEST_NAME" \in DOMAIN environ /\ environ["TEST_NAME"] = ""
    /\ cwd = "/srv/app" /\ envFiles = << ".env.test1", ".env.test2" >>
    /\ config.Name = "file-app" /\ defaultCfg.Name = "test-app"
    /\ config.Port = 1111

\* C11 (fields the overlay never touches): a WithEnv call, whatever the
\* environment holds, leaves as it was every field that is unexported (or
\* lies in an unexported nested record), that has no annotation under the
\* configured tag name, or whose annotation is the empty string.
C11_UnboundUntouched ==
    [][ chain' = Append(chain, WithEnvCall) =>
          \A i \in DOMAIN Leaves :
              ~Bound(Leaves[i]) =>
                  At(config', Leaves[i].path) = At(config, Leaves[i].path) ]_vars

\* TestConfigNoTags with the variable named by the prefix alone and the
\* variables named after the fields all set: the overlay ran and set the
\* name, and the two other fields are the defaults.
C11_Witness ==
    /\ recType = "TestConfigNoTags" /\ chain = << WithEnvCall >> /\ err = NoErr
    /\ { "TEST_", "TEST_NoTag", "TEST_NOTAG", "TEST_EMPTYTAG" } \subseteq DOMAIN environ
    /\ Getenv(environ, "TEST_") = "empty-name"
    /\ config.Name = "new-name" /\ defaultCfg.Name = "test"
    /\ config.NoTag = "default-no-tag" /\ config.EmptyTag = "default-empty-tag"

\* The error the parser of a field's kind gives a literal: strconv's
\* ParseInt, ParseUint, ParseFloat or ParseBool, or time.ParseDuration; a
\* string and a list of strings take every literal.
ParseError(kind, v) ==
    CASE kind \in { "int", "int8" }   -> ParseInt(v).err
      [] kind \in { "uint", "uint8" } -> ParseUint(v).err
      [] kind = "float"                -> ParseFloat(v).err
      [] kind = "bool"                 -> ParseBool(v).err
      [] kind = "duration"             -> ParseDuration(v).err
      [] OTHER                         -> NoErr

\* How the mapper names the kind in its error.
KindWord(kind) ==
    CASE kind \in { "int", "int8" }   -> "integer"
      [] kind \in { "uint", "uint8" } -> "unsigned integer"
      [] kind = "float"                -> "float"
      [] kind = "bool"                 -> "boolean"
      [] kind = "duration"             -> "duration"

\* The variable of the leaf is set, not empty, and does not parse as the
\* kind of the leaf.
FailsToParse(l, env) ==
    /\ Bound(l)
    /\ Getenv(env, envPrefix \o EnvName(l)) /= ""
    /\ ParseError(l.field.kind, Getenv(env, envPrefix \o EnvName(l))) /= NoErr

\* The error of a leaf as the mapper reports it from inside the nested
\* records around the leaf.
RECURSIVE InSubConfigs(_, _)
InSubConfigs(path, e) ==
    IF Len(path) = 1 THEN e
    ELSE "error loading sub config field " \o path[1] \o ": "
             \o InSubConfigs(Tail(path), e)

MapperErrorPrefix == "failed to override configuration from environment: "

\* C12 (coercion failure): when the mapper runs (WithEnv in Clean, the
\* locator not failing) and some bound variable is set, not empty and does
\* not parse as its field's kind, the builder is poisoned with the coercion
\* error of the first such field in depth-first declaration order, every
\* bound field before it whose variable is not empty holds its coerced
\* value, and no field after it is changed by the call; Build then returns
\* the zero record and that error.
C12_CoercionFailure ==
    /\ [][ (chain' = Append(chain, WithEnvCall) /\ err = NoErr /\ cwd /= NoCwd) =>
             LET failing == { i \in DOMAIN Leaves : FailsToParse(Leaves[i], environ') }
             IN  IF failing = {} THEN err' = NoErr
                 ELSE LET first == CHOOSE i \in failing : \A j \in failing : i <= j
                          l == Leaves[first]
                          v == Getenv(environ', envPrefix \o EnvName(l))
                      IN  /\ err' = MapperErrorPrefix
                                 \o InSubConfigs(l.path,
                                      "invalid " \o KindWord(l.field.kind) \o " value for "
                                          \o EnvName(l) \o ": "
                                          \o ParseError(l.field.kind, v))
                          /\ \A j \in DOMAIN Leaves :
                                 j >= first =>
                                     At(config', Leaves[j].path) = At(config, Leaves[j].path)
                          /\ \A j \in DOMAIN Leaves :
                                 LET b == Leaves[j]
                                     w == Getenv(environ', envPrefix \o EnvName(b))
                                 IN  (j < first /\ Bound(b) /\ w /= "") =>
                                         At(config', b.path) =
                                             Coerce(b.field, EnvName(b), w,
                                                    At(config, b.path)).val ]_vars
    /\ []( (JustBuilt /\ HasPrefix(err, MapperErrorPrefix)) =>
               ret.isZero /\ ret.err = err )

\* AppConfig with the name, the 8-bit integer and the duration of the
\* nested record and the field after it all set, and the byte between them
\* set to a word: the name and the integer were mapped, the duration and the
\* field after the nested record are the defaults, and Build returned the
\* error of the byte from inside the nested record.
C12_Witness ==
    /\ recType = "AppConfig" /\ chain = << WithEnvCall >> /\ JustBuilt /\ ret.isZero
    /\ ret.err = MapperErrorPrefix
           \o "error loading sub config field Limits: invalid unsigned integer value for BYTE: "
           \o "strconv.ParseUint: parsing \"not-a-byte\": invalid syntax"
    /\ config.Name = "app" /\ defaultCfg.Name = "test"
    /\ config.Limits.Small = 0 - 12
    /\ Getenv(environ, "TEST_WAIT") = "45s" /\ config.Limits.Wait = defaultCfg.Limits.Wait
    /\ Getenv(environ, "TEST_AFTER") = "later" /\ config.After = "default-after"

\* C13 (LoadFile without a path): in Clean, LoadFile with a nil path or
\* with the empty string as path succeeds and does nothing: the record, the
\* error slot, the prefix, the tag name, the candidate list and the
\* environment are as before, and no file is read.
C13_NoPathNoOp ==
    [][ \A path \in { NilPath, Ptr("") } :
          (chain' = Append(chain, LoadFileCall(path)) /\ err = NoErr) =>
              /\ err' = NoErr
              /\ UNCHANGED << config, envPrefix, envTag, envFiles, environ, cwd, ret >>
              /\ \A i \in DOMAIN invoked' : invoked'[i].fn /= "os.ReadFile" ]_vars

\* An environment overlay that changed the record, then LoadFile with the
\* empty path: the builder is Clean, the call invoked nothing, and the
\* record is the overlaid one.
C13_Witness ==
    /\ recType = "testConfig"
    /\ chain = << WithEnvCall, LoadFileCall(Ptr("")) >>
    /\ err = NoErr /\ invoked = << >>
    /\ config.Port = 6060 /\ defaultCfg.Port = 8080

ReadErrorPrefix == "failed to read config file: "

ParseErrorPrefix == "failed to parse config file: "

\* The JSON value can be decoded into field f: it is null, or a value of
\* the field's kind.
Fits(f, v) ==
    CASE v.t = "null"   -> TRUE
      [] v.t = "string" -> f.kind = "string"
      [] v.t = "bool"   -> f.kind = "bool"
      [] v.t = "number" ->
           \/ f.kind = "int" /\ ParseInt(v.lit).err = NoErr
           \/ f.kind = "uint" /\ ParseUint(v.lit).err = NoErr
           \/ f.kind = "float" /\ ParseFloat(v.lit).err = NoErr
      [] v.t = "array"  ->
           f.kind = "strings" /\ \A i \in DOMAIN v.elems : v.elems[i].t = "string"

\* The file at the path is a JSON document that can be decoded onto the
\* record: every member that names an exported field fits it.
Decodable(path) ==
    /\ JsonFiles[path.s].valid
    /\ \A i \in DOMAIN Object(path) :
           \A j \in DOMAIN Fields(recType) :
               LET f == Fields(recType)[j]
               IN  (f.exported /\ Names(Object(path)[i].key, f)) =>
                       Fits(f, Object(path)[i].val)

\* C14 (LoadFile failures): in Clean, LoadFile with a path that is not
\* empty poisons the builder in two cases and no other: the file cannot be
\* read, with a read error, the record untouched; the file is read but is
\* not a JSON document decodable onto the record, with a parse error.  The
\* two errors are told apart by their prefixes.
C14_LoadFileFailures ==
    [][ \A path \in Paths :
          ( /\ chain' = Append(chain, LoadFileCall(path))
            /\ err = NoErr /\ ~path.isNil /\ path.s /= "" ) =>
              /\ invoked' = << Invocation("os.ReadFile", path.s) >>
              /\ IF path.s \notin DOMAIN JsonFiles
                 THEN /\ HasPrefix(err', ReadErrorPrefix)
                      /\ ~HasPrefix(err', ParseErrorPrefix)
                      /\ config' = config
                 ELSE IF ~Decodable(path)
                 THEN /\ HasPrefix(err', ParseErrorPrefix)
                      /\ ~HasPrefix(err', ReadErrorPrefix)
                 ELSE err' = NoErr ]_vars

\* A document that is JSON but gives the port a string: the builder holds a
\* parse error, not a read error.
C14_Witness ==
    /\ recType = "testConfig"
    /\ chain = << LoadFileCall(Ptr("/etc/app/mistyped.json")) >>
    /\ invoked = << Invocation("os.ReadFile", "/etc/app/mistyped.json") >>
    /\ err = ParseErrorPrefix
           \o "json: cannot unmarshal string into Go struct field testConfig.port of type int"

LocatorErrorPrefix == "failed to load environment variables: "

\* C15 (the locator is total): when WithEnv runs the locator, the locator
\* fails only if the working directory cannot be determined, and then the
\* environment is as before; otherwise it succeeds whatever the candidate
\* list (the empty one too) and whatever is on disk, and every key it
\* inserts is assigned, with that value, by a candidate that exists and can
\* be loaded: a candidate that does not exist, is a directory or is
\* malformed inserts nothing.
C15_LocatorTotal ==
    [][ (chain' = Append(chain, WithEnvCall) /\ err = NoErr) =>
          IF cwd = NoCwd
          THEN /\ HasPrefix(err', LocatorErrorPrefix)
               /\ environ' = environ /\ config' = config
          ELSE /\ ~HasPrefix(err', LocatorErrorPrefix)
               /\ \A key \in DOMAIN environ' \ DOMAIN environ :
                      \E a \in Candidates :
                          /\ Supplies(a, key)
                          /\ environ'[key] =
                                 AssignedValue(ParsedEnvFiles[CandidatePath(a)].assigns, key) ]_vars

\* From /srv/app with the one candidate .env: the one in /srv/app is a
\* directory, the one in /srv is malformed after its first line, the one in
\* / is loaded.  The builder is Clean, the log format comes from /.env and
\* the name assigned on the first line of /srv/.env is not in the
\* environment.
C15_Witness ==
    /\ recType = "DB" /\ chain = << WithEnvCall >> /\ err = NoErr
    /\ cwd = "/srv/app" /\ envFiles = << ".env" >>
    /\ EnvFileSystem["/srv/app/.env"].isDir
    /\ ParsedEnvFiles["/srv/.env"].err /= NoErr
    /\ "TEST_DB_LOG_FORMAT" \in DOMAIN environ /\ config.LogFormat = "xml"
    /\ "TEST_NAME" \notin DOMAIN environ

\* The positions of the commas of v, and the position of the n-th of them
\* (0 before the first, one past the end after the last).
CommasOf(v) == { k \in 1..Len(v) : Char(v, k) = "," }

CommaPos(v, n) ==
    IF n = 0 THEN 0
    ELSE IF n > Cardinality(CommasOf(v)) THEN Len(v) + 1
    ELSE CHOOSE k \in CommasOf(v) : Cardinality({ j \in CommasOf(v) : j <= k }) = n

\* The i-th stretch of v between commas.
Piece(v, i) == SubSeq(v, CommaPos(v, i - 1) + 1, CommaPos(v, i) - 1)

\* t is p without the white space at its two ends.
IsTrimOf(t, p) ==
    \E a \in 1..(Len(p) + 1), b \in 0..Len(p) :
        /\ t = SubSeq(p, a, b)
        /\ \A k \in 1..(a - 1) : Char(p, k) \in WhiteSpace
        /\ \A k \in (b + 1)..Len(p) : Char(p, k) \in WhiteSpace
        /\ a <= b => (Char(p, a) \notin WhiteSpace /\ Char(p, b) \notin WhiteSpace)
        /\ a > b => a = b + 1

\* C16 (lists of strings): after a WithEnv call that succeeded, a bound
\* field that is a list of strings and whose variable holds a value v that
\* is not empty holds exactly the stretches of v between its commas, in
\* order, each without the white space at its ends: one element more than v
\* has commas, an empty stretch being an empty string.  Nothing of the list
\* the field held before is left.
C16_CommaSplit ==
    [][ (chain' = Append(chain, WithEnvCall) /\ err = NoErr /\ err' = NoErr) =>
          \A i \in DOMAIN Leaves :
              LET l == Leaves[i]
                  v == Getenv(environ', envPrefix \o EnvName(l))
                  list == At(config', l.path)
              IN  (Bound(l) /\ l.field.kind = "strings" /\ v /= "") =>
                      /\ Len(list) = Cardinality(CommasOf(v)) + 1
                      /\ \A n \in DOMAIN list : IsTrimOf(list[n], Piece(v, n)) ]_vars

\* The tags were the two of blank.json; the variable holds four stretches,
\* one of them empty and two with space around them: the field holds the
\* four, trimmed, and neither the document's tags nor the default's.
C16_Witness ==
    /\ recType = "testConfig" /\ err = NoErr
    /\ chain = << LoadFileCall(Ptr("/etc/app/blank.json")), WithEnvCall >>
    /\ "TEST_TAGS" \in DOMAIN environ /\ Getenv(environ, "TEST_TAGS") = "env, tag1 ,,tag2"
    /\ config.Tags = << "env", "tag1", "", "tag2" >>

\* The integer kinds and the values a field of each can hold.
IntegerKinds == { "int", "int8", "uint", "uint8" }

InRange(kind, x) ==
    CASE kind = "int8"  -> 0 - 128 <= x /\ x <= 127
      [] kind = "uint8" -> 0 <= x /\ x <= 255
      [] kind = "uint"  -> 0 <= x
      [] kind = "int"   -> TRUE

\* The number a base-10 literal stands for.
LiteralValue(kind, v) ==
    IF kind \in { "int", "int8" } THEN ParseInt(v).val ELSE ParseUint(v).val

\* C17 (integers at the field's width): when the mapper runs, a bound
\* integer field whose variable holds a base-10 literal outside the range
\* of the field's width is not assigned: the builder is poisoned and the
\* field keeps its value; and one whose literal is in range and that is
\* assigned holds the number of the literal, never a wrapped or truncated
\* value.
C17_ParsedAtWidth ==
    [][ (chain' = Append(chain, WithEnvCall) /\ err = NoErr /\ cwd /= NoCwd) =>
          \A i \in DOMAIN Leaves :
              LET l == Leaves[i]
                  v == Getenv(environ', envPrefix \o EnvName(l))
              IN  ( /\ Bound(l) /\ l.field.kind \in IntegerKinds /\ v /= ""
                    /\ ParseError(l.field.kind, v) = NoErr ) =>
                      IF InRange(l.field.kind, LiteralValue(l.field.kind, v))
                      THEN err' = NoErr =>
                               At(config', l.path) = LiteralValue(l.field.kind, v)
                      ELSE /\ err' /= NoErr
                           /\ At(config', l.path) = At(config, l.path) ]_vars

\* AppConfig with the variable of the 8-bit signed field set to 300: the
\* overlay succeeded and the field holds 44, which is 300 cut to eight bits.
C17_Witness ==
    /\ recType = "AppConfig" /\ chain = << WithEnvCall >> /\ err = NoErr
    /\ Getenv(environ, "TEST_SMALL") = "300"
    /\ config.Limits.Small = 44 /\ defaultCfg.Limits.Small = 1
    /\ config.After = "later"

\* A field of a nested record, as opposed to one of the record itself.
Nested(l) == Len(l.path) > 1

\* C18 (nested records): after a WithEnv call that succeeded, every bound
\* field of every nested record that can be set, whether the field that
\* holds the nested record is annotated or not, is resolved from the prefix
\* followed by the field's own name: it holds the coerced value of that
\* variable when it is not empty, and the value it had before otherwise.
\* Neither the variable of the nesting field nor a variable with the nesting
\* field's name between prefix and name has any effect.
C18_NestedRecords ==
    [][ (chain' = Append(chain, WithEnvCall) /\ err = NoErr /\ err' = NoErr) =>
          \A i \in DOMAIN Leaves :
              LET l == Leaves[i]
                  v == Getenv(environ', envPrefix \o EnvName(l))
              IN  (Nested(l) /\ Bound(l)) =>
                      At(config', l.path) =
                          IF v /= ""
                          THEN Coerce(l.field, EnvName(l), v, At(config, l.path)).val
                          ELSE At(config, l.path) ]_vars

\* AppConfig, whose nested record is in a field annotated LIMITS: with
\* TEST_LIMITS, TEST_LIMITS_SMALL, TEST_SMALL and TEST_WAIT set, the nested
\* integer is the value of TEST_SMALL and the nested duration that of
\* TEST_WAIT (1h5m30s, 393 * 10^10 ns).
C18_Witness ==
    /\ recType = "AppConfig" /\ chain = << WithEnvCall >> /\ err = NoErr
    /\ Getenv(environ, "TEST_LIMITS") = "nesting" /\ Getenv(environ, "TEST_LIMITS_SMALL") = "5"
    /\ Getenv(environ, "TEST_SMALL") = "7" /\ config.Limits.Small = 7
    /\ Getenv(environ, "TEST_WAIT") = "1h5m30s" /\ config.Limits.Wait = Decimal(393, 10)
    /\ defaultCfg.Limits.Small = 1 /\ defaultCfg.Limits.Wait = Decimal(3, 10)

\* C19 (environment store frame): in every step a key the environment
\* holds keeps its value, so none is removed or overwritten; a LoadFile or
\* Build step leaves the environment as it is; and a key a WithEnv step adds
\* is one that a candidate file of the locator assigns, so the mapper adds
\* none of its own.
C19_EnvironFrame ==
    [][ /\ \A key \in DOMAIN environ :
             key \in DOMAIN environ' /\ environ'[key] = environ[key]
        /\ chain' /= Append(chain, WithEnvCall) => environ' = environ
        /\ chain' = Append(chain, WithEnvCall) =>
             \A key \in DOMAIN environ' \ DOMAIN environ :
                 /\ err = NoErr /\ cwd /= NoCwd
                 /\ \E a \in Candidates : Supplies(a, key) ]_vars

\* The name is set in the real environment and assigned by two files, the
\* port by the files only: after WithEnv and Build the name is the real
\* one, the port has been added, and the field of the name was mapped.
C19_Witness ==
    /\ recType = "testConfig" /\ chain = << WithEnvCall >> /\ JustBuilt
    /\ cwd = "/srv/app" /\ envFiles = << ".env.test1", ".env.test2" >>
    /\ Getenv(realEnv, "TEST_NAME") = "env-app"
    /\ Getenv(environ, "TEST_NAME") = "env-app"
    /\ "TEST_PORT" \notin DOMAIN realEnv /\ Getenv(environ, "TEST_PORT") = "1111"
    /\ ~ret.isZero /\ ret.val.Name = "env-app" /\ ret.val.Port = 1111

\* The number of times the last call invoked fn.
Times(fn) == Cardinality({ i \in DOMAIN invoked : invoked[i].fn = fn })

\* The step is a Build call.
BuildStep == chain' = chain /\ ret'.called /\ builtAt' = Len(chain)

-----------------------------------------------------------------------------
(* Two goroutines in WithEnv at once                                       *)

\* Two builders of their own in one process, each in WithEnv on its own
\* goroutine.  The process environment is the only thing they share; os
\* guards it with a lock, so every os.Getenv, os.Setenv and os.Environ is
\* one step and the steps of the two interleave in any order.
Goroutines == { 1, 2 }

\* The candidate lists of the two builders: the same names in opposite order.
ResolverFiles ==
    ( 1 :> << ".env.test1", ".env.test2" >> ) @@ ( 2 :> << ".env.test2", ".env.test1" >> )

\* The environments the process starts in.
ConcurrentEnvs ==
    { EnvWith(ch) : ch \in { { },
                             { << "TEST_PORT", "6060" >> },
                             { << "TEST_NAME", "" >>, << "TEST_FACTOR", "3.14" >> } } }

\* godotenv.Load setting every key of the file, held or not.
ToSetOverload(currentEnv, path) ==
    LET parsed == ParsedEnvFiles[path]
    IN  IF parsed.err /= NoErr THEN { }
        ELSE { << k, AssignedValue(parsed.assigns, k) >> :
                   k \in AssignedKeys(parsed.assigns) }

\* godotenv.Load(path) after it has read the file and copied os.Environ()
\* into currentEnv: the keys it goes on to set, each with os.Setenv, are
\* those of the file that the copy does not hold.
ToSet(currentEnv, path) ==
    LET parsed == ParsedEnvFiles[path]
    IN  IF parsed.err /= NoErr THEN { }
        ELSE { << k, AssignedValue(parsed.assigns, k) >> :
                   k \in AssignedKeys(parsed.assigns) \ DOMAIN currentEnv }

\* Where the loops of loadEnvFromAncestors go after candidate i of dir: the
\* next name, or the first name in the parent, or out of the loops when the
\* directory is its own parent (the mapper then starts at the first field).
AfterCandidate(g, dir, i) ==
    IF i < Len(g.files) THEN [g EXCEPT !.i = i + 1, !.pc = "stat"]
    ELSE IF Dir(dir) = dir THEN [g EXCEPT !.pc = "field", !.f = 1]
         ELSE [g EXCEPT !.dir = Dir(dir), !.i = 1, !.pc = "stat"]

\* WithEnv up to the first candidate: the builder is Clean and os.Getwd
\* gives the working directory.
EnterWithEnv(n) ==
    /\ resolvers[n].pc = "start"
    /\ resolvers' = [resolvers EXCEPT ![n] = [@ EXCEPT !.pc = "stat", !.dir = cwd, !.i = 1]]
    /\ UNCHANGED << builderVars, walk, options, keycloak, logcfg, earlier >>

\* One candidate: os.Stat, and for a file that exists godotenv.Load up to
\* its copy of the environment.
TryCandidate(n) ==
    LET g == resolvers[n]
        envPath == Join(g.dir, g.files[g.i])
    IN  /\ g.pc = "stat"
        /\ resolvers' = [resolvers EXCEPT ![n] =
              IF Exists(envPath) /\ ToSet(environ, envPath) /= { }
              THEN [g EXCEPT !.pc = "setenv", !.pending = ToSet(environ, envPath)]
              ELSE AfterCandidate(g, g.dir, g.i)]
        /\ UNCHANGED << builderVars, walk, options, keycloak, logcfg, earlier >>

\* One os.Setenv of godotenv.Load; it ranges over a map, so the keys come
\* in any order.
SetenvStep(n) ==
    LET g == resolvers[n]
    IN  /\ g.pc = "setenv"
        /\ \E kv \in g.pending :
              /\ environ' = Setenv(environ, kv[1], kv[2])
              /\ resolvers' = [resolvers EXCEPT ![n] =
                    IF g.pending = { kv }
                    THEN [AfterCandidate(g, g.dir, g.i) EXCEPT !.pending = { }]
                    ELSE [g EXCEPT !.pending = g.pending \ { kv }]]
        /\ UNCHANGED << recType, config, err, envPrefix, envTag, envFiles, cwd, ret,
                        chain, builtAt, defaultCfg, realEnv, firstErr, invoked,
                        walk, options, keycloak, logcfg, earlier >>

\* One iteration of the loop of loadEnvToStruct over the builder's record:
\* the field's variable is read and, when it is not empty, coerced into the
\* field; a value that does not parse ends WithEnv with the error.
MapField(n) ==
    LET g == resolvers[n]
        field == Fields(recType)[g.f]
        envVar == TagLookup(field, envTag)
        envValue == Getenv(environ, envPrefix \o envVar.val)
        r == Coerce(field, envVar.val, envValue, g.config[field.name])
        next == IF g.f < Len(Fields(recType)) THEN [g EXCEPT !.f = g.f + 1]
                ELSE [g EXCEPT !.pc = "done"]
        read == [next EXCEPT !.reads = (envPrefix \o envVar.val :> envValue) @@ g.reads]
    IN  /\ g.pc = "field"
        /\ resolvers' = [resolvers EXCEPT ![n] =
              IF ~field.exported \/ ~envVar.ok \/ envVar.val = "" THEN next
              ELSE IF envValue = "" THEN read
              ELSE IF r.err /= NoErr
                   THEN [read EXCEPT !.pc = "done", !.f = g.f,
                           !.err = "failed to override configuration from environment: "
                                       \o r.err]
                   ELSE [read EXCEPT !.config = [g.config EXCEPT ![field.name] = r.val]]]
        /\ UNCHANGED << builderVars, walk, options, keycloak, logcfg, earlier >>

\* Two builders made by New(defaultConfig, WithEnvPrefix("TEST_"),
\* WithEnvFiles(...)) in the deepest directory, neither yet in WithEnv.
ConcurrentInit ==
    /\ recType = "testConfig"
    /\ defaultCfg \in Defaults(recType)
    /\ config = defaultCfg
    /\ err = NoErr
    /\ envPrefix = "TEST_"
    /\ envTag = "env"
    /\ envFiles = << >>
    /\ cwd = "/srv/app"
    /\ realEnv \in ConcurrentEnvs
    /\ environ = realEnv
    /\ ret = NoRet
    /\ chain = << >>
    /\ builtAt = 0 - 1
    /\ firstErr = NoErr
    /\ invoked = << >>
    /\ resolvers = [n \in Goroutines |->
                      [pc |-> "start", files |-> ResolverFiles[n], dir |-> "", i |-> 1,
                       pending |-> { }, f |-> 1, config |-> defaultCfg, err |-> NoErr,
                       reads |-> << >>]]
    /\ walk = Unused /\ options = Unused /\ keycloak = Unused /\ logcfg = Unused
    /\ earlier = Unused

ConcurrentNext ==
    \E n \in Goroutines :
        \/ EnterWithEnv(n)
        \/ TryCandidate(n)
        \/ SetenvStep(n)
        \/ MapField(n)

ConcurrentSpec == ConcurrentInit /\ [][ConcurrentNext]_vars

\* The value some loadable environment file assigns the key.
FileValues(key) ==
    { AssignedValue(ParsedEnvFiles[p].assigns, key) :
        p \in { q \in DOMAIN ParsedEnvFiles :
                  /\ ParsedEnvFiles[q].err = NoErr
                  /\ key \in AssignedKeys(ParsedEnvFiles[q].assigns) } }

\* C21 (benign race): with two resolutions interleaved in any way, a key the
\* environment held before either started holds the same value in every
\* state, and that value is what each resolution read for it; a value read
\* for any other key is empty or one that some environment file assigns.
C21_BenignRace ==
    /\ \A k \in DOMAIN realEnv :
          /\ k \in DOMAIN environ /\ environ[k] = realEnv[k]
          /\ \A n \in Goroutines :
                k \in DOMAIN resolvers[n].reads => resolvers[n].reads[k] = realEnv[k]
    /\ \A n \in Goroutines : \A k \in DOMAIN resolvers[n].reads \ DOMAIN realEnv :
          resolvers[n].reads[k] = "" \/ resolvers[n].reads[k] \in FileValues(k)

\* Both resolutions are over without error; both read the factor and the
\* empty name the real environment held, and for the port, which only files
\* define, the two read different values.
C21_Witness ==
    /\ \A n \in Goroutines : resolvers[n].pc = "done" /\ resolvers[n].err = NoErr
    /\ Getenv(realEnv, "TEST_FACTOR") = "3.14" /\ "TEST_NAME" \in DOMAIN realEnv
    /\ \A n \in Goroutines :
          /\ resolvers[n].reads["TEST_FACTOR"] = "3.14"
          /\ resolvers[n].reads["TEST_NAME"] = ""
          /\ resolvers[n].config.Name = defaultCfg.Name
    /\ "TEST_PORT" \notin DOMAIN realEnv
    /\ resolvers[1].reads["TEST_PORT"] = "1111" /\ resolvers[1].config.Port = 1111
    /\ resolvers[2].reads["TEST_PORT"] = "2222" /\ resolvers[2].config.Port = 2222

-----------------------------------------------------------------------------
(* Package keycloak and package auth                                       *)

\* A pointer: nil, or one value pointed to.
Nil == << >>

Addr(x) == << x >>

\* const RoleAdmin, RoleParticipant, RoleAgent
RoleAdmin == "admin"
RoleParticipant == "participant"
RoleAgent == "agent"

\* func (r Role) Validate() error
RoleValidate(r) ==
    IF r \in { RoleAdmin, RoleParticipant, RoleAgent } THEN NoErr
    ELSE "invalid auth role: " \o r

\* Identity.Validate that asks an agent for a participant id alone.
IdentityValidateParticipantOnly(m) ==
    IF m.Role \in { RoleParticipant, RoleAgent } /\ m.Scope.ParticipantID = Nil
    THEN m.Role \o " role requires participant id"
    ELSE NoErr

\* func (m *Identity) Validate() error
IdentityValidate(m) ==
    CASE m.Role = RoleParticipant ->
           IF m.Scope.ParticipantID = Nil
           THEN "participant role requires participant id" ELSE NoErr
      [] m.Role = RoleAgent ->
           IF m.Scope.ParticipantID = Nil THEN "agent role requires participant id"
           ELSE IF m.Scope.AgentID = Nil THEN "agent role requires agent id"
                ELSE NoErr
      [] OTHER -> NoErr

\* Config.Validate that fills in a cache TTL that is not positive.
ConfigValidateDefaultsTTL(c) ==
    IF c.KeycloakURL = ""
    THEN [config |-> c,
          err |-> "oauth keycloak URL cannot be empty when oauth authenticator is enabled"]
    ELSE IF c.Realm = ""
    THEN [config |-> c,
          err |-> "oauth realm cannot be empty when oauth authenticator is enabled"]
    ELSE IF c.ClientID = ""
    THEN [config |-> c,
          err |-> "oauth client ID cannot be empty when oauth authenticator is enabled"]
    ELSE IF c.JWKSCacheTTL <= 0
    THEN [config |-> [c EXCEPT !.JWKSCacheTTL = 300], err |-> NoErr]
    ELSE [config |-> c, err |-> NoErr]

\* func (c *Config) Validate() error, with the Config as the call leaves it.
ConfigValidate(c) ==
    IF c.KeycloakURL = ""
    THEN [config |-> c,
          err |-> "oauth keycloak URL cannot be empty when oauth authenticator is enabled"]
    ELSE IF c.Realm = ""
    THEN [config |-> c,
          err |-> "oauth realm cannot be empty when oauth authenticator is enabled"]
    ELSE IF c.ClientID = ""
    THEN [config |-> c,
          err |-> "oauth client ID cannot be empty when oauth authenticator is enabled"]
    ELSE IF c.JWKSCacheTTL <= 0
    THEN [config |-> c,
          err |-> "oauth JWKS cache TTL must be positive when oauth authenticator is enabled"]
    ELSE [config |-> c, err |-> NoErr]

\* The loops of extractRole: the first role of the list, from i on, that
\* Validate accepts; the empty string when there is none.
RECURSIVE FirstValidRole(_, _)
FirstValidRole(roles, i) ==
    IF i > Len(roles) THEN ""
    ELSE IF RoleValidate(roles[i]) = NoErr THEN roles[i]
         ELSE FirstValidRole(roles, i + 1)

\* extractRole looking through the roles of every client.
extractRoleAnyClient(cfg, claims) ==
    LET found(r) == [role |-> r, err |-> NoErr]
        realm == FirstValidRole(claims.RealmAccess.Roles, 1)
        clients == { c \in DOMAIN claims.ResourceAccess :
                        FirstValidRole(claims.ResourceAccess[c].Roles, 1) /= "" }
    IN  IF claims.Role /= "" /\ RoleValidate(claims.Role) = NoErr THEN found(claims.Role)
        ELSE IF realm /= "" THEN found(realm)
        ELSE IF clients /= { }
             THEN found(FirstValidRole(
                     claims.ResourceAccess[CHOOSE c \in clients : TRUE].Roles, 1))
             ELSE [role |-> "", err |-> "no valid role found in token"]

\* func (a *Authenticator) extractRole(claims *Claims) (auth.Role, error)
extractRole(cfg, claims) ==
    LET found(r) == [role |-> r, err |-> NoErr]
        realm == FirstValidRole(claims.RealmAccess.Roles, 1)
        exists == cfg.ClientID \in DOMAIN claims.ResourceAccess
        client == IF exists
                  THEN FirstValidRole(claims.ResourceAccess[cfg.ClientID].Roles, 1)
                  ELSE ""
    IN  IF claims.Role /= "" /\ RoleValidate(claims.Role) = NoErr THEN found(claims.Role)
        ELSE IF realm /= "" THEN found(realm)
        ELSE IF client /= "" THEN found(client)
        ELSE [role |-> "", err |-> "no valid role found in token"]

HexDigits == Digits \cup { "a", "b", "c", "d", "e", "f" }

\* properties.ParseUUID on the textual form of a UUID: 36 characters,
\* hyphens at 9, 14, 19 and 24, hexadecimal digits elsewhere.
ParseUUID(s) ==
    IF /\ Len(s) = 36
       /\ \A i \in 1..36 : IF i \in { 9, 14, 19, 24 } THEN Char(s, i) = "-"
                            ELSE Char(s, i) \in HexDigits
    THEN [val |-> s, err |-> NoErr]
    ELSE [val |-> "", err |-> "invalid UUID format"]

\* func (a *Authenticator) Authenticate(ctx, tokenString): the verifier's
\* answer and the decoding of the claims are given with the token.
AuthenticateResult(cfg, token) ==
    LET fail(e) == [identity |-> Nil, err |-> e]
        claims == token.claims
        id == ParseUUID(token.Subject)
        role == extractRole(cfg, claims)
        pid == ParseUUID(claims.ParticipantID)
        aid == ParseUUID(claims.AgentID)
        name == IF claims.Name /= "" THEN claims.Name
                ELSE IF claims.PreferredUsername /= "" THEN claims.PreferredUsername
                     ELSE token.Subject
        identity == [ID |-> id.val, Name |-> name, Role |-> role.role,
                     Scope |-> [ParticipantID |-> IF claims.ParticipantID /= ""
                                                  THEN Addr(pid.val) ELSE Nil,
                                AgentID |-> IF claims.AgentID /= ""
                                            THEN Addr(aid.val) ELSE Nil]]
    IN  IF token.verifyErr /= NoErr THEN fail(token.verifyErr)
        ELSE IF id.err /= NoErr THEN fail(id.err)
        ELSE IF token.claimsErr /= NoErr THEN fail(token.claimsErr)
        ELSE IF role.err /= NoErr THEN fail(role.err)
        ELSE IF claims.ParticipantID /= "" /\ pid.err /= NoErr THEN fail(pid.err)
        ELSE IF claims.AgentID /= "" /\ aid.err /= NoErr THEN fail(aid.err)
        ELSE IF IdentityValidate(identity) /= NoErr
             THEN fail("invalid identity: " \o IdentityValidate(identity))
             ELSE [identity |-> Addr(identity), err |-> NoErr]

\* Config values: each checked field empty or not, the cache TTL negative,
\* zero or positive.
KeycloakConfigs ==
    [KeycloakURL : { "", "https://keycloak.example" }, Realm : { "", "fulcrum" },
     ClientID : { "", "fulcrum-api" }, ClientSecret : { "secret" },
     JWKSCacheTTL : { 0 - 1, 0, 300 }, ValidateIssuer : { TRUE }]

GoodConfig ==
    [KeycloakURL |-> "https://keycloak.example", Realm |-> "fulcrum",
     ClientID |-> "fulcrum-api", ClientSecret |-> "secret", JWKSCacheTTL |-> 300,
     ValidateIssuer |-> TRUE]

\* The roles a token carries: directly, for the realm, and per client.
DirectRoles == { "", "superuser", RoleAgent }

RealmRoleLists ==
    { << >>, << "uma_authorization" >>,
      << "offline_access", RoleParticipant, RoleAdmin >> }

ResourceAccesses ==
    { << >>,
      ( "fulcrum-api" :> [Roles |-> << "viewer" >>] ),
      ( "other-client" :> [Roles |-> << RoleAdmin >>] ),
      ( "other-client" :> [Roles |-> << RoleAdmin >>] )
          @@ ( "fulcrum-api" :> [Roles |-> << "viewer", RoleAgent, RoleAdmin >>] ) }

SubjectUUID == "7f9c24e8-3b12-4fef-91e0-0a4c5d6e7f80"

\* The claims of a token, as idToken.Claims decodes them.
ClaimsValues ==
    { [Role |-> r, ParticipantID |-> p, AgentID |-> a, Name |-> n[1],
       PreferredUsername |-> n[2], RealmAccess |-> [Roles |-> rr],
       ResourceAccess |-> ra] :
        r \in DirectRoles, rr \in RealmRoleLists, ra \in ResourceAccesses,
        p \in { "", "0b6f1c9a-52d7-4e0b-8a3f-6c1d2e3f4a5b", "not-a-uuid" },
        a \in { "", "c4d5e6f7-0a1b-4c2d-9e3f-4a5b6c7d8e9f", "42" },
        n \in { << "Ada", "ada" >>, << "", "ada" >>, << "", "" >> } }

\* A token string as the verifier and the decoder answer: accepted or not,
\* with a subject, and claims that decode or do not.
Tokens ==
    { [verifyErr |-> v[1], Subject |-> v[2], claimsErr |-> v[3], claims |-> c] :
        v \in { << NoErr, SubjectUUID, NoErr >>,
                << "oidc: token is expired", SubjectUUID, NoErr >>,
                << NoErr, "service-account", NoErr >>,
                << NoErr, SubjectUUID,
                   "oidc: failed to unmarshal claims: json: cannot unmarshal number into Go struct field Claims.role of type string" >> },
        c \in { x \in ClaimsValues : x.Name = "Ada" \/ x.RealmAccess.Roles = << >> } }

\* The Configs Authenticators are made with: the client the tokens name
\* roles for, and another one.
AuthenticatorConfigs == { GoodConfig, [GoodConfig EXCEPT !.ClientID = "other-client"] }

\* A token of an administrator.
AdminToken ==
    [verifyErr |-> NoErr, Subject |-> SubjectUUID, claimsErr |-> NoErr,
     claims |-> [Role |-> RoleAdmin, ParticipantID |-> "", AgentID |-> "",
                 Name |-> "Ada", PreferredUsername |-> "ada",
                 RealmAccess |-> [Roles |-> << >>], ResourceAccess |-> << >>]]

\* A Config and a token string somebody holds, nothing called yet: any
\* Config with the administrator's token, or a Config an Authenticator is
\* made with and any token.
KeycloakInit ==
    /\ \E c \in KeycloakConfigs \cup AuthenticatorConfigs, t \in Tokens \cup { AdminToken } :
          /\ t = AdminToken \/ c \in AuthenticatorConfigs
          /\ keycloak = [config0 |-> c, config |-> c, token |-> t, out |-> [op |-> "none"]]
    /\ recType = "testConfig"
    /\ defaultCfg = newTestConfig
    /\ config = defaultCfg
    /\ err = NoErr
    /\ envPrefix = "" /\ envTag = "env" /\ envFiles = << >>
    /\ cwd = "/" /\ realEnv = BaseEnv /\ environ = realEnv
    /\ ret = NoRet /\ chain = << >> /\ builtAt = 0 - 1
    /\ firstErr = NoErr /\ invoked = << >>
    /\ resolvers = Unused /\ walk = Unused /\ options = Unused /\ logcfg = Unused
    /\ earlier = Unused

\* cfg.Validate()
Validate ==
    /\ \E r \in { ConfigValidate(keycloak.config) } :
          keycloak' = [keycloak EXCEPT !.config = r.config,
                                       !.out = [op |-> "Validate", err |-> r.err]]
    /\ UNCHANGED << builderVars, resolvers, walk, options, logcfg, earlier >>

\* a.extractRole(&claims) of an Authenticator made with the Config
ExtractRole ==
    /\ \E r \in { extractRole(keycloak.config, keycloak.token.claims) } :
          keycloak' = [keycloak EXCEPT !.out = [op |-> "extractRole", role |-> r.role,
                                                err |-> r.err]]
    /\ UNCHANGED << builderVars, resolvers, walk, options, logcfg, earlier >>

\* a.Authenticate(ctx, tokenString) of an Authenticator made with the Config
Authenticate ==
    /\ \E r \in { AuthenticateResult(keycloak.config, keycloak.token) } :
          keycloak' = [keycloak EXCEPT !.out = [op |-> "Authenticate",
                                                identity |-> r.identity, err |-> r.err]]
    /\ UNCHANGED << builderVars, resolvers, walk, options, logcfg, earlier >>

KeycloakNext == Validate \/ ExtractRole \/ Authenticate

KeycloakSpec == KeycloakInit /\ [][KeycloakNext]_vars

\* What a caller may take for a role.
ValidRoles == { "admin", "participant", "agent" }

\* The roles extractRole looks at, in the order it looks at them.
RoleCandidates(cfg, claims) ==
    << claims.Role >> \o claims.RealmAccess.Roles
       \o (IF cfg.ClientID \in DOMAIN claims.ResourceAccess
           THEN claims.ResourceAccess[cfg.ClientID].Roles ELSE << >>)

\* C22 (role extraction): extractRole returns the first valid role among the
\* direct claim, the realm roles in order and the roles under the configured
\* client in order, and no error; when none of these is valid, and only
\* then, it returns the empty role and the error.  Roles under another
\* client are no candidates, and an invalid direct claim is passed over.
C22_FirstValidRole ==
    keycloak.out.op = "extractRole" =>
        LET cands == RoleCandidates(keycloak.config, keycloak.token.claims)
            valid == { i \in DOMAIN cands : cands[i] \in ValidRoles }
        IN  IF valid = { }
            THEN keycloak.out.err = "no valid role found in token" /\ keycloak.out.role = ""
            ELSE /\ keycloak.out.err = NoErr
                 /\ \E i \in valid : /\ keycloak.out.role = cands[i]
                                     /\ \A j \in valid : i <= j

\* The direct claim is invalid, the realm roles hold nothing valid, another
\* client lists admin, and the role comes from the configured client's
\* list, where agent stands before admin.
C22_Witness ==
    /\ keycloak.out.op = "extractRole"
    /\ keycloak.token.claims.Role = "superuser"
    /\ keycloak.token.claims.RealmAccess.Roles = << "uma_authorization" >>
    /\ keycloak.config.ClientID = "fulcrum-api"
    /\ DOMAIN keycloak.token.claims.ResourceAccess = { "other-client", "fulcrum-api" }
    /\ keycloak.token.claims.ResourceAccess["other-client"].Roles = << RoleAdmin >>
    /\ keycloak.token.claims.ResourceAccess["fulcrum-api"].Roles
          = << "viewer", RoleAgent, RoleAdmin >>
    /\ keycloak.out.err = NoErr
    /\ keycloak.out.role = RoleAgent

\* The checks of a Config in the order stated, each with whether the Config
\* fails it and the error that reports it.
ConfigChecks(c) ==
    << << c.KeycloakURL = "",
          "oauth keycloak URL cannot be empty when oauth authenticator is enabled" >>,
       << c.Realm = "",
          "oauth realm cannot be empty when oauth authenticator is enabled" >>,
       << c.ClientID = "",
          "oauth client ID cannot be empty when oauth authenticator is enabled" >>,
       << ~(c.JWKSCacheTTL > 0),
          "oauth JWKS cache TTL must be positive when oauth authenticator is enabled" >> >>

\* C23 (Config.Validate): the Config is never modified; Validate returns no
\* error when the URL, the realm and the client ID are not empty and the
\* cache TTL is positive, and otherwise the error of the first check that
\* fails in the order URL, realm, client ID, cache TTL.
C23_ConfigValidate ==
    /\ keycloak.config = keycloak.config0
    /\ keycloak.out.op = "Validate" =>
          LET checks == ConfigChecks(keycloak.config0)
              failing == { i \in DOMAIN checks : checks[i][1] }
          IN  IF failing = { } THEN keycloak.out.err = NoErr
              ELSE \E i \in failing : /\ keycloak.out.err = checks[i][2]
                                      /\ \A j \in failing : i <= j

\* Validate has run on a Config whose realm and client ID are empty and
\* whose cache TTL is zero: the error is the realm's.
C23_Witness ==
    /\ keycloak.out.op = "Validate"
    /\ keycloak.config0.KeycloakURL /= "" /\ keycloak.config0.Realm = ""
    /\ keycloak.config0.ClientID = "" /\ keycloak.config0.JWKSCacheTTL = 0
    /\ keycloak.out.err = "oauth realm cannot be empty when oauth authenticator is enabled"
    /\ keycloak.config = keycloak.config0

-----------------------------------------------------------------------------
(* Package config: log levels                                              *)

\* slog.Level(99), slog.LevelError, slog.LevelWarn, slog.LevelInfo
LevelSilent == 99
LevelError == 8
LevelWarn == 4
LevelInfo == 0

\* logLevel taking a level it does not know for a request for silence.
logLevelUnknownSilent(value) ==
    CASE value = "error" -> LevelError
      [] value = "warn" -> LevelWarn
      [] value \in { "info", "" } -> LevelInfo
      [] OTHER -> LevelSilent

\* func logLevel(value string) slog.Level
logLevel(value) ==
    CASE value = "silent" -> LevelSilent
      [] value = "error" -> LevelError
      [] value = "warn" -> LevelWarn
      [] value \in { "info", "" } -> LevelInfo
      [] OTHER -> LevelInfo

\* func (c *Log) GetLogLevel() slog.Level
LogGetLogLevel(c) == logLevel(c.Level)

\* func (c *DB) GetLogLevel() slog.Level
DBGetLogLevel(c) == logLevel(c.LogLevel)

\* Levels a configuration may name: the four known ones, none, and others.
LevelNames ==
    { "silent", "error", "warn", "info", "", "debug", "invalid", "SILENT", "Error",
      " warn" }

\* A Log and a DB record, nothing called yet.
LogInit ==
    /\ \E lv \in LevelNames, dl \in LevelNames, fmt \in { "text", "json" } :
          logcfg = [log |-> [Format |-> fmt, Level |-> lv],
                    db |-> [DSN |-> "postgres://db", LogLevel |-> dl, LogFormat |-> fmt],
                    out |-> [op |-> "none"]]
    /\ recType = "DB"
    /\ defaultCfg \in Defaults(recType)
    /\ config = defaultCfg
    /\ err = NoErr
    /\ envPrefix = "" /\ envTag = "env" /\ envFiles = << >>
    /\ cwd = "/" /\ realEnv = BaseEnv /\ environ = realEnv
    /\ ret = NoRet /\ chain = << >> /\ builtAt = 0 - 1
    /\ firstErr = NoErr /\ invoked = << >>
    /\ resolvers = Unused /\ walk = Unused /\ options = Unused /\ keycloak = Unused
    /\ earlier = Unused

\* cfg.GetLogLevel() on the Log record
LogLevelOfLog ==
    /\ logcfg' = [logcfg EXCEPT !.out = [op |-> "Log.GetLogLevel",
                                         level |-> LogGetLogLevel(logcfg.log)]]
    /\ UNCHANGED << builderVars, resolvers, walk, options, keycloak, earlier >>

\* cfg.GetLogLevel() on the DB record
LogLevelOfDB ==
    /\ logcfg' = [logcfg EXCEPT !.out = [op |-> "DB.GetLogLevel",
                                         level |-> DBGetLogLevel(logcfg.db)]]
    /\ UNCHANGED << builderVars, resolvers, walk, options, keycloak, earlier >>

LogNext == LogLevelOfLog \/ LogLevelOfDB

LogSpec == LogInit /\ [][LogNext]_vars

\* The level the mapping is stated to give a string.
StatedLevel(value) ==
    IF value = "silent" THEN 99
    ELSE IF value = "error" THEN LevelError
    ELSE IF value = "warn" THEN LevelWarn
    ELSE LevelInfo

\* C24 (log levels): Log.GetLogLevel gives the stated level of the record's
\* Level and DB.GetLogLevel that of the record's LogLevel, whatever the
\* string: 99 for "silent", Error for "error", Warn for "warn", Info for
\* everything else.
C24_LogLevelMapping ==
    /\ logcfg.out.op = "Log.GetLogLevel" =>
          logcfg.out.level = StatedLevel(logcfg.log.Level)
    /\ logcfg.out.op = "DB.GetLogLevel" =>
          logcfg.out.level = StatedLevel(logcfg.db.LogLevel)
    /\ \A v \in LevelNames : logLevel(v) \in { 99, LevelError, LevelWarn, LevelInfo }

\* DB.GetLogLevel has answered Info for "SILENT" on a record whose sibling
\* Log asks for silence.
C24_Witness ==
    /\ logcfg.out.op = "DB.GetLogLevel"
    /\ logcfg.db.LogLevel = "SILENT" /\ logcfg.log.Level = "silent"
    /\ logcfg.out.level = LevelInfo /\ logcfg.out.level /= LevelSilent

\* The keys the call put into the environment.
Inserted == DOMAIN environ' \ DOMAIN environ

\* The first leaf, in the mapper's order, whose variable does not parse in
\* the environment; one past the last leaf when every variable parses.
FirstFailing(env) ==
    LET failing == { i \in DOMAIN Leaves : FailsToParse(Leaves[i], env) }
    IN  IF failing = { } THEN Len(Leaves) + 1
        ELSE CHOOSE i \in failing : \A j \in failing : i <= j

\* C25 (locator before mapper): in a WithEnv call on a Clean builder, when
\* the locator fails the builder is poisoned with the locator's error and
\* the record is as before, whatever the variables hold; otherwise every
\* key the locator inserted in this call is still in the environment when
\* the call is over, also when the mapper poisons the builder, and every
\* bound field the mapper reached whose variable was inserted in this call
\* with a non-empty value holds that value coerced.
C25_LocatorThenMapper ==
    [][ (chain' = Append(chain, WithEnvCall) /\ err = NoErr) =>
          IF cwd = NoCwd
          THEN /\ HasPrefix(err', LocatorErrorPrefix)
               /\ config' = config
          ELSE /\ \A key \in FileKeys \ DOMAIN environ :
                      (\E a \in Candidates : Supplies(a, key)) => key \in Inserted
               /\ err' /= NoErr => HasPrefix(err', MapperErrorPrefix)
               /\ \A i \in DOMAIN Leaves :
                      LET l == Leaves[i]
                          key == envPrefix \o EnvName(l)
                      IN  ( /\ Bound(l) /\ key \in Inserted /\ environ'[key] /= ""
                            /\ i < FirstFailing(environ') ) =>
                              At(config', l.path) =
                                  Coerce(l.field, EnvName(l), environ'[key],
                                         At(config, l.path)).val ]_vars

\* The real environment sets only a connection limit that is no unsigned
\* number.  One WithEnv call inserted the name, the port and the tags from
\* files; the mapper saw the name and the port in that same call, failed at
\* the limit, and the tags it did not reach are in the environment all the
\* same.
C25_Witness ==
    /\ recType = "testConfig" /\ chain = << WithEnvCall >>
    /\ cwd = "/srv/app" /\ envFiles = << ".env.test1", ".env.test2" >>
    /\ DOMAIN realEnv = DOMAIN BaseEnv \cup { "TEST_MAX_CONNS" }
    /\ Getenv(realEnv, "TEST_MAX_CONNS") = "-1"
    /\ HasPrefix(err, MapperErrorPrefix \o "invalid unsigned integer value for MAX_CONNS")
    /\ config.Name = "name-from-file1" /\ config.Port = 1111
    /\ Getenv(environ, "TEST_TAGS") = "root, tag" /\ config.Tags = defaultCfg.Tags

-----------------------------------------------------------------------------
(* The ancestor walk, statement by statement                               *)

\* The working directories the walk starts in: the root, directories one,
\* two and four levels below it, and one that cannot be determined.
WorkingDirs == { "/", "/srv", "/srv/app", "/srv/app/cmd/server", NoCwd }

\* The end of an iteration of the outer loop that leaves the loop one
\* directory early, when the parent is its own parent.
AscentStopsBelowRoot(dir) ==
    [break |-> Dir(Dir(dir)) = Dir(dir), dir |-> Dir(dir)]

\* The end of an iteration of the outer loop: parentDir := filepath.Dir(dir),
\* break when parentDir == dir, else dir = parentDir.
Ascent(dir) ==
    [break |-> Dir(dir) = dir, dir |-> Dir(dir)]

\* A process about to call loadEnvFromAncestors(files...).
WalkInit ==
    /\ cwd \in WorkingDirs
    /\ envFiles \in EnvFileLists \cup { << >> }
    /\ recType = "testConfig"
    /\ defaultCfg = newTestConfig
    /\ config = defaultCfg
    /\ err = NoErr
    /\ envPrefix = "TEST_" /\ envTag = "env"
    /\ realEnv \in RealEnvs(recType)
    /\ environ = realEnv
    /\ ret = NoRet /\ chain = << >> /\ builtAt = 0 - 1
    /\ firstErr = NoErr /\ invoked = << >>
    /\ walk = [pc |-> "getwd", dir |-> "", i |-> 1, found |-> FALSE, err |-> NoErr,
               visited |-> << >>, tried |-> << >>]
    /\ resolvers = Unused /\ options = Unused /\ keycloak = Unused /\ logcfg = Unused
    /\ earlier = Unused

\* currentDir, err := os.Getwd(); dir := currentDir
WalkGetwd ==
    /\ walk.pc = "getwd"
    /\ walk' = IF cwd = NoCwd
               THEN [walk EXCEPT !.pc = "done", !.err = "getwd: no such file or directory"]
               ELSE [walk EXCEPT !.pc = "name", !.dir = cwd, !.i = 1,
                                 !.visited = << cwd >>]
    /\ UNCHANGED << builderVars, resolvers, options, keycloak, logcfg, earlier >>

\* One iteration of the inner loop: the candidate is joined to the
\* directory, and loaded when os.Stat finds it.
WalkTry ==
    /\ walk.pc = "name" /\ walk.i <= Len(envFiles)
    /\ \E envPath \in { Join(walk.dir, envFiles[walk.i]) } :
          \E l \in { IF Exists(envPath) THEN DotenvLoad(environ, envPath)
                     ELSE [env |-> environ, err |-> "stat: no such file or directory"] } :
              /\ environ' = l.env
              /\ walk' = [walk EXCEPT !.i = walk.i + 1,
                                      !.found = walk.found \/ l.err = NoErr,
                                      !.tried = Append(walk.tried, envPath)]
    /\ UNCHANGED << recType, config, err, envPrefix, envTag, envFiles, cwd, ret,
                    chain, builtAt, defaultCfg, realEnv, firstErr, invoked,
                    resolvers, options, keycloak, logcfg, earlier >>

\* The inner loop is over: up to the parent, or out of the outer loop.
WalkAscend ==
    /\ walk.pc = "name" /\ walk.i > Len(envFiles)
    /\ \E a \in { Ascent(walk.dir) } :
          walk' = IF a.break THEN [walk EXCEPT !.pc = "done"]
                  ELSE [walk EXCEPT !.dir = a.dir, !.i = 1,
                                    !.visited = Append(walk.visited, a.dir)]
    /\ UNCHANGED << builderVars, resolvers, options, keycloak, logcfg, earlier >>

WalkNext == WalkGetwd \/ WalkTry \/ WalkAscend

\* One goroutine runs the walk and nothing stops it: a statement that can
\* run does run.
WalkSpec == WalkInit /\ [][WalkNext]_vars /\ WF_vars(WalkNext)

\* d is the directory that holds p: p is d, a separator (none after the
\* root) and one name.
HoldsDir(d, p) ==
    LET rest == IF d = "/" THEN SubSeq(p, 2, Len(p)) ELSE SubSeq(p, Len(d) + 2, Len(p))
    IN  /\ Len(p) > Len(d) /\ HasPrefix(p, d)
        /\ d = "/" \/ Char(p, Len(d) + 1) = "/"
        /\ rest /= "" /\ Index(rest, "/") = 0

\* C26 (the walk terminates): from every working directory the walk comes
\* to its end; when it has, the directories it visited are the working
\* directory first, then each time the directory holding the one before,
\* down to the root, which is last, none twice, and the candidates it tried
\* are every name of the list, in order, in each of these directories in
\* turn, the root included.
C26_WalkTerminates ==
    /\ <>(walk.pc = "done")
    /\ []( (walk.pc = "done" /\ cwd /= NoCwd) =>
             LET v == walk.visited
                 n == Len(envFiles)
             IN  /\ v[1] = cwd /\ v[Len(v)] = "/"
                 /\ \A k \in 1..(Len(v) - 1) : HoldsDir(v[k + 1], v[k])
                 /\ \A j, k \in DOMAIN v : v[j] = v[k] => j = k
                 /\ Len(walk.tried) = Len(v) * n
                 /\ \A k \in DOMAIN v : \A i \in 1..n :
                        walk.tried[(k - 1) * n + i] =
                            (IF v[k] = "/" THEN "/" ELSE v[k] \o "/") \o envFiles[i] )

\* The walk from four levels down is over: five directories, the root last,
\* and the last candidate tried is the second name in the root, which was
\* loaded.
C26_Witness ==
    /\ walk.pc = "done" /\ cwd = "/srv/app/cmd/server"
    /\ envFiles = << ".env.test1", ".env.test2" >>
    /\ walk.visited = << "/srv/app/cmd/server", "/srv/app/cmd", "/srv/app", "/srv", "/" >>
    /\ Len(walk.tried) = 10 /\ walk.tried[10] = "/.env.test2"
    /\ Getenv(environ, "TEST_DB_LOG_LEVEL") = "silent"
    /\ "TEST_DB_LOG_LEVEL" \notin DOMAIN realEnv

-----------------------------------------------------------------------------
(* New and its options                                                     *)

\* The builder as a value: the fields of Builder[T].
ThisBuilder ==
    [config |-> config, err |-> err, envPrefix |-> envPrefix, envTag |-> envTag,
     envFiles |-> envFiles]

\* b := &Builder[T]{config: defaultConfig, envTag: "env", envFiles: []string{}}
NewBuilder(defaultConfig) ==
    [config |-> defaultConfig, err |-> NoErr, envPrefix |-> "", envTag |-> "env",
     envFiles |-> << >>]

\* WithEnvPrefix(prefix), WithEnvTag(tag), WithEnvFiles(files...): each gives
\* a function on the builder, here its name and its argument.
WithEnvPrefix(prefix) == [kind |-> "WithEnvPrefix", arg |-> prefix]

WithEnvTag(tag) == [kind |-> "WithEnvTag", arg |-> tag]

WithEnvFiles(files) == [kind |-> "WithEnvFiles", arg |-> files]

\* opt(b) with WithEnvFiles adding its names to the list.
ApplyOptionExtending(opt, b) ==
    CASE opt.kind = "WithEnvPrefix" -> [b EXCEPT !.envPrefix = opt.arg]
      [] opt.kind = "WithEnvTag"    -> [b EXCEPT !.envTag = opt.arg]
      [] opt.kind = "WithEnvFiles"  -> [b EXCEPT !.envFiles = b.envFiles \o opt.arg]

\* opt(b): the assignment the option's function makes.
ApplyOption(opt, b) ==
    CASE opt.kind = "WithEnvPrefix" -> [b EXCEPT !.envPrefix = opt.arg]
      [] opt.kind = "WithEnvTag"    -> [b EXCEPT !.envTag = opt.arg]
      [] opt.kind = "WithEnvFiles"  -> [b EXCEPT !.envFiles = opt.arg]

\* The options a caller passes.
Options ==
    { WithEnvPrefix(p) : p \in { "", "TEST_", "APP_" } }
        \cup { WithEnvTag(t) : t \in { "env", "cfg", "" } }
        \cup { WithEnvFiles(l) : l \in EnvFileLists \cup { << >> } }

NoOption == [kind |-> "none"]

\* New(defaultConfig) before the loop over opts has applied any option.
NewInit ==
    /\ recType \in RecTypes
    /\ defaultCfg \in Defaults(recType)
    /\ \E b \in { NewBuilder(defaultCfg) } :
          /\ config = b.config /\ err = b.err /\ envPrefix = b.envPrefix
          /\ envTag = b.envTag /\ envFiles = b.envFiles
          /\ options = [opt |-> NoOption, prior |-> b]
    /\ cwd = "/srv/app"
    /\ realEnv = BaseEnv /\ environ = realEnv
    /\ ret = NoRet /\ chain = << >> /\ builtAt = 0 - 1
    /\ firstErr = NoErr /\ invoked = << >>
    /\ resolvers = Unused /\ walk = Unused /\ keycloak = Unused /\ logcfg = Unused
    /\ earlier = Unused

\* One iteration of the loop of New: the next option of opts is applied.
\* The option and the builder it was applied to are kept for reference.
NextOption(opt) ==
    /\ \E b \in { ApplyOption(opt, ThisBuilder) } :
          /\ config' = b.config /\ err' = b.err /\ envPrefix' = b.envPrefix
          /\ envTag' = b.envTag /\ envFiles' = b.envFiles
    /\ options' = [opt |-> opt, prior |-> ThisBuilder]
    /\ UNCHANGED << recType, environ, cwd, ret, chain, builtAt, defaultCfg, realEnv,
                    firstErr, invoked, resolvers, walk, keycloak, logcfg, earlier >>

NewNext == \E opt \in Options : NextOption(opt)

NewSpec == NewInit /\ [][NewNext]_vars

\* C27 (New and its options): with no option applied the builder is Clean,
\* holds the caller's record, the annotation name "env", no candidate files
\* and the empty prefix; an option applied to a builder leaves it Clean with
\* the same record and changes its own setting alone, to its argument:
\* WithEnvFiles makes the list its argument whatever the list held.
C27_NewAndOptions ==
    /\ err = NoErr /\ config = defaultCfg
    /\ options.opt = NoOption =>
          envTag = "env" /\ envFiles = << >> /\ envPrefix = ""
    /\ options.opt /= NoOption =>
          LET was == options.prior
              opt == options.opt
          IN  /\ envPrefix = (IF opt.kind = "WithEnvPrefix" THEN opt.arg ELSE was.envPrefix)
              /\ envTag = (IF opt.kind = "WithEnvTag" THEN opt.arg ELSE was.envTag)
              /\ envFiles = (IF opt.kind = "WithEnvFiles" THEN opt.arg ELSE was.envFiles)

\* WithEnvFiles(".env") was applied to a builder that had been given a
\* prefix, another annotation name and two candidate names: the list is the
\* one name, the prefix and the annotation name are as they were.
C27_Witness ==
    /\ options.opt = WithEnvFiles(<< ".env" >>)
    /\ options.prior.envFiles = << ".env.test1", ".env.test2" >>
    /\ options.prior.envPrefix = "APP_" /\ options.prior.envTag = "cfg"
    /\ envFiles = << ".env" >> /\ envPrefix = "APP_" /\ envTag = "cfg"
    /\ err = NoErr /\ config = defaultCfg

\* Every field of a record type, nested records and their fields alike, in
\* the mapper's order, each with the names that lead to it and whether it
\* can be set.
RECURSIVE NodesFrom(_, _, _, _)
NodesFrom(typ, i, path, settable) ==
    IF i > Len(Fields(typ)) THEN << >>
    ELSE LET f == Fields(typ)[i]
             node == [path |-> Append(path, f.name), field |-> f,
                      settable |-> settable /\ f.exported]
         IN  << node >>
                 \o (IF f.kind = "struct"
                     THEN NodesFrom(f.elem, 1, node.path, node.settable) ELSE << >>)
                 \o NodesFrom(typ, i + 1, path, settable)

NodeTable == [typ \in RecTypes |-> NodesFrom(typ, 1, << >>, TRUE)]

Nodes == NodeTable[recType]

\* The kinds the switch of the mapper has no case for: a map, a pointer, a
\* sequence of something other than strings, a nested record.
UnsupportedKinds == { "map", "ptr", "ints", "struct" }

\* The field is annotated, of a kind the mapper has no case for, and its
\* variable holds a value that is not empty.
UnsupportedAndSet(n, env) ==
    /\ Bound(n) /\ n.field.kind \in UnsupportedKinds
    /\ Getenv(env, envPrefix \o EnvName(n)) /= ""

\* The leaf lies inside the nested record.
Under(l, n) ==
    Len(l.path) > Len(n.path) /\ SubSeq(l.path, 1, Len(n.path)) = n.path

\* C28 as stated: in a WithEnv call that runs the mapper, every annotated
\* field of an unsupported kind whose variable is set and not empty,
\* a nested record carrying an annotation included, is as it was before the
\* call, and the call leaves the builder Clean unless a field of a supported
\* kind outside such a field fails to parse.
C28_UnsupportedUntouchedAsStated ==
    [][ (chain' = Append(chain, WithEnvCall) /\ err = NoErr /\ cwd /= NoCwd) =>
          \A i \in DOMAIN Nodes :
              UnsupportedAndSet(Nodes[i], environ') =>
                  /\ At(config', Nodes[i].path) = At(config, Nodes[i].path)
                  /\ err' /= NoErr =>
                         \E j \in DOMAIN Leaves :
                             /\ FailsToParse(Leaves[j], environ')
                             /\ ~Under(Leaves[j], Nodes[i]) ]_vars

\* C28 (fields of unsupported kinds): in a WithEnv call that runs the
\* mapper, an annotated map, pointer or sequence of non-strings whose
\* variable is set and not empty is as it was before the call, and an error
\* of the call is always that of a field of a supported kind that fails to
\* parse.  The variable of an annotated nested record has no effect either,
\* but the record is not left alone: each of its fields that the mapper
\* reaches is mapped from the field's own variable, and stays as it was
\* only when that variable is unbound, unset or empty.
C28_UnsupportedKinds ==
    [][ (chain' = Append(chain, WithEnvCall) /\ err = NoErr /\ cwd /= NoCwd) =>
          /\ err' /= NoErr =>
                 \E j \in DOMAIN Leaves :
                     /\ FailsToParse(Leaves[j], environ')
                     /\ Leaves[j].field.kind \notin UnsupportedKinds
          /\ \A i \in DOMAIN Nodes :
                 UnsupportedAndSet(Nodes[i], environ') =>
                     IF Nodes[i].field.kind /= "struct"
                     THEN At(config', Nodes[i].path) = At(config, Nodes[i].path)
                     ELSE \A j \in DOMAIN Leaves :
                              LET l == Leaves[j]
                                  w == Getenv(environ', envPrefix \o EnvName(l))
                              IN  Under(l, Nodes[i]) =>
                                      At(config', l.path) =
                                          IF Bound(l) /\ w /= "" /\ j < FirstFailing(environ')
                                          THEN Coerce(l.field, EnvName(l), w,
                                                      At(config, l.path)).val
                                          ELSE At(config, l.path) ]_vars

\* ServiceConfig with the variables of the map, the pointer, the integer
\* sequence and the annotated nested record all set: the first three are
\* the defaults, the 8-bit field of the nested record was mapped from its
\* own variable, the field after them was mapped too, and the builder is
\* Clean.
C28_Witness ==
    /\ recType = "ServiceConfig" /\ chain = << WithEnvCall >> /\ err = NoErr
    /\ Getenv(environ, "TEST_LABELS") = "tier=silver"
    /\ Getenv(environ, "TEST_PARENT") = "root"
    /\ Getenv(environ, "TEST_PORTS") = "80,443"
    /\ Getenv(environ, "TEST_LIMITS") = "nesting"
    /\ config.Labels = defaultCfg.Labels /\ config.Parent = defaultCfg.Parent
    /\ config.Ports = defaultCfg.Ports
    /\ config.Limits.Small = 7 /\ defaultCfg.Limits.Small = 1
    /\ config.Name = "svc" /\ config.After = "later"

\* Some step of Authenticate on the token fails: the verifier rejects the
\* token, the subject is no UUID, the claims do not decode, no candidate
\* role is valid, a participant or agent ID that is given is no UUID, or
\* the role asks for an ID the token does not give.
SomeStepFails(cfg, token) ==
    LET claims == token.claims
        cands == RoleCandidates(cfg, claims)
        valid == { i \in DOMAIN cands : cands[i] \in ValidRoles }
        role == cands[CHOOSE i \in valid : \A j \in valid : i <= j]
    IN  \/ token.verifyErr /= NoErr
        \/ ParseUUID(token.Subject).err /= NoErr
        \/ token.claimsErr /= NoErr
        \/ valid = { }
        \/ claims.ParticipantID /= "" /\ ParseUUID(claims.ParticipantID).err /= NoErr
        \/ claims.AgentID /= "" /\ ParseUUID(claims.AgentID).err /= NoErr
        \/ valid /= { } /\ role \in { "participant", "agent" } /\ claims.ParticipantID = ""
        \/ valid /= { } /\ role = "agent" /\ claims.AgentID = ""

\* C29 (Authenticate): Authenticate returns an identity or an error, never
\* both and never neither; it returns an error whenever one of its steps
\* fails; and an identity it returns has one of the roles admin,
\* participant, agent, with a participant ID when it is a participant and
\* with a participant ID and an agent ID when it is an agent.
C29_IdentityMeetsRole ==
    keycloak.out.op = "Authenticate" =>
        /\ (keycloak.out.err = NoErr) <=> (keycloak.out.identity /= Nil)
        /\ SomeStepFails(keycloak.config, keycloak.token) => keycloak.out.err /= NoErr
        /\ keycloak.out.identity /= Nil =>
              LET m == keycloak.out.identity[1]
              IN  /\ m.Role \in ValidRoles
                  /\ m.Role = "participant" => m.Scope.ParticipantID /= Nil
                  /\ m.Role = "agent" =>
                        m.Scope.ParticipantID /= Nil /\ m.Scope.AgentID /= Nil

\* An agent was authenticated: the role comes from the configured client's
\* list, both IDs are in the identity, and the name is the preferred
\* username since the token gives no name.
C29_Witness ==
    /\ keycloak.out.op = "Authenticate" /\ keycloak.out.err = NoErr
    /\ keycloak.token.claims.Role = "superuser"
    /\ keycloak.token.claims.RealmAccess.Roles = << >>
    /\ keycloak.token.claims.Name = ""
    /\ keycloak.out.identity[1].Role = "agent"
    /\ keycloak.out.identity[1].ID = SubjectUUID
    /\ keycloak.out.identity[1].Name = "ada"
    /\ keycloak.out.identity[1].Scope.ParticipantID
           = << "0b6f1c9a-52d7-4e0b-8a3f-6c1d2e3f4a5b" >>
    /\ keycloak.out.identity[1].Scope.AgentID
           = << "c4d5e6f7-0a1b-4c2d-9e3f-4a5b6c7d8e9f" >>

\* The members of the document that give field f a value it can hold.
FittingMembers(path, f) ==
    { i \in ValueMembers(path, f) : Fits(f, Object(path)[i].val) }

\* C30 (overlays work in place): the record the builder holds is the
\* caller's, and what a failing call did to it stays.  A LoadFile call that
\* fails with a parse error on a JSON document leaves in the record the
\* value of every member that fits its field; a WithEnv call that fails in
\* the mapper leaves in it the coerced value of every bound field before the
\* failing one whose variable is not empty; and Build, which then returns
\* the zero value and the error, leaves the record as it is.
C30_MutatedInPlace ==
    /\ [][ \A path \in Paths :
             ( /\ chain' = Append(chain, LoadFileCall(path)) /\ err = NoErr
               /\ HasDocument(path) /\ HasPrefix(err', ParseErrorPrefix) ) =>
                 \A j \in DOMAIN Fields(recType) :
                     LET f == Fields(recType)[j]
                     IN  (f.exported /\ f.kind /= "struct"
                              /\ FittingMembers(path, f) /= { }) =>
                             Denotes(f, Object(path)[Last(FittingMembers(path, f))].val,
                                     config'[f.name]) ]_vars
    /\ [][ ( /\ chain' = Append(chain, WithEnvCall) /\ err = NoErr
             /\ HasPrefix(err', MapperErrorPrefix) ) =>
               \A j \in DOMAIN Leaves :
                   LET l == Leaves[j]
                       w == Getenv(environ', envPrefix \o EnvName(l))
                   IN  (Bound(l) /\ w /= "" /\ j < FirstFailing(environ')) =>
                           At(config', l.path) =
                               Coerce(l.field, EnvName(l), w, At(config, l.path)).val ]_vars
    /\ [][ BuildStep => config' = config ]_vars
    /\ []( (JustBuilt /\ err /= NoErr) => ret.isZero /\ ret.err = err )

\* A document that gives the port a string between a name and a switch that
\* fit: LoadFile failed, Build returned the zero value and the parse error,
\* and the caller's record holds the document's name and switch, decoded
\* before and after the member that failed, and the default port.
C30_Witness ==
    /\ recType = "testConfig"
    /\ chain = << LoadFileCall(Ptr("/etc/app/mistyped.json")) >>
    /\ JustBuilt /\ ret.isZero /\ HasPrefix(ret.err, ParseErrorPrefix)
    /\ config.Name = "typed-app" /\ defaultCfg.Name = "test-app"
    /\ config.Enabled = FALSE /\ defaultCfg.Enabled = TRUE
    /\ config.Port = defaultCfg.Port

\* x is what a leaf holds once the mapper has run on the defaults without
\* failing: the coerced value of its variable when that is bound, set and
\* not empty, else the default.
EnvLayer(l, x) ==
    LET key == envPrefix \o EnvName(l)
    IN  IF Bound(l) /\ Getenv(environ, key) /= ""
        THEN x = Coerce(l.field, EnvName(l), Getenv(environ, key),
                        At(defaultCfg, l.path)).val
        ELSE x = At(defaultCfg, l.path)

\* C31 as stated (precedence follows call order): in a Clean chain WithEnv
\* then LoadFile of a document, every field whose key is in the document
\* holds the document's value, whatever its variable holds; in a Clean
\* chain of two LoadFile calls every field whose key is in the second
\* document holds that document's value.
C31_CallOrderAsStated ==
    \A p1, p2 \in Paths :
        ( /\ err = NoErr /\ HasDocument(p2)
          /\ chain \in { << WithEnvCall, LoadFileCall(p2) >>,
                         << LoadFileCall(p1), LoadFileCall(p2) >> } ) =>
            \A i \in DOMAIN Leaves :
                LET l == Leaves[i]
                IN  (TopLevel(l) /\ ExactMembers(p2, l.field) /= { }) =>
                        Denotes(l.field, Object(p2)[Last(ExactMembers(p2, l.field))].val,
                                At(config, l.path))

\* C31 (precedence follows call order, amended): in a Clean chain WithEnv
\* then LoadFile of a document, a field holds the value of the last member
\* that names it and gives it a value, whatever its variable holds, and a
\* field with no such member holds what the environment overlay left; in a
\* Clean chain of two LoadFile calls of documents a field holds the value
\* the second document gives it, else the one the first gives it, else the
\* default.  A member that is null gives a string, number or boolean field
\* no value.
C31_CallOrder ==
    \A p1, p2 \in Paths :
        (err = NoErr /\ HasDocument(p2)) =>
            /\ chain = << WithEnvCall, LoadFileCall(p2) >> =>
                  \A i \in DOMAIN Leaves :
                      LET l == Leaves[i]
                      IN  IF TopLevel(l) /\ ValueMembers(p2, l.field) /= { }
                          THEN Overlaid(l.field, p2, ValueMembers(p2, l.field),
                                        At(config, l.path), At(config, l.path))
                          ELSE EnvLayer(l, At(config, l.path))
            /\ (chain = << LoadFileCall(p1), LoadFileCall(p2) >> /\ HasDocument(p1)) =>
                  \A i \in DOMAIN Leaves :
                      LET l == Leaves[i]
                          x == At(config, l.path)
                      IN  IF TopLevel(l) /\ ValueMembers(p2, l.field) /= { }
                          THEN Overlaid(l.field, p2, ValueMembers(p2, l.field), x, x)
                          ELSE IF TopLevel(l) /\ ValueMembers(p1, l.field) /= { }
                          THEN Overlaid(l.field, p1, ValueMembers(p1, l.field), x, x)
                          ELSE x = At(defaultCfg, l.path)

\* The name and the port are set in the environment and in the document;
\* WithEnv ran first and LoadFile second, and the record holds the
\* document's name and port, not the environment's.
C31_Witness ==
    /\ recType = "testConfig" /\ err = NoErr
    /\ chain = << WithEnvCall, LoadFileCall(Ptr("/etc/app/config.json")) >>
    /\ Getenv(environ, "TEST_NAME") = "env-app" /\ Getenv(environ, "TEST_PORT") = "6060"
    /\ config.Name = "file-app" /\ config.Port = 9090
    /\ Getenv(environ, "TEST_TAGS") = "root, tag" /\ config.Tags = << "root", "tag" >>

\* The last Build returned a validation error and no chain call followed it.
ValidationFailed ==
    JustBuilt /\ ret.isZero /\ HasPrefix(ret.err, ValidationErrorPrefix)

\* C32 (a validation failure is not latched): Build never writes the
\* builder's error slot; after Build returned a validation error the builder
\* is still Clean; the next LoadFile or WithEnv call executes (it reads its
\* file or asks for the working directory, and a LoadFile of a document that
\* fits the record lays it over the record); and a Build that follows a
\* failed validation returns the record and no error once the record
\* satisfies its tags.
C32_ValidationNotLatched ==
    /\ [][ BuildStep => (err' = err /\ firstErr' = firstErr) ]_vars
    /\ [](ValidationFailed => err = NoErr)
    /\ [][ (ValidationFailed /\ ChainStep) =>
             /\ chain' = Append(chain, WithEnvCall) =>
                    invoked' = << Invocation("os.Getwd", "") >>
             /\ \A path \in Paths :
                    chain' = Append(chain, LoadFileCall(path)) =>
                       /\ (~path.isNil /\ path.s /= "") =>
                              invoked' = << Invocation("os.ReadFile", path.s) >>
                       /\ (HasDocument(path) /\ Decodable(path)) =>
                              /\ err' = NoErr
                              /\ \A i \in DOMAIN Leaves :
                                   LET l == Leaves[i]
                                   IN  TopLevel(l) =>
                                         Overlaid(l.field, path,
                                                  ValueMembers(path, l.field),
                                                  At(config', l.path),
                                                  At(config, l.path)) ]_vars
    /\ [][ ( /\ BuildStep /\ err = NoErr
             /\ ret.called /\ ret.isZero /\ HasPrefix(ret.err, ValidationErrorPrefix)
             /\ TagsSatisfied(recType, config) ) =>
               (~ret'.isZero /\ ret'.val = config /\ ret'.err = NoErr) ]_vars

\* A DB default without its required DSN: Build returned a validation error,
\* then LoadFile of config.json ran on the still Clean builder and set the
\* DSN, so the record now satisfies its tags and the next Build returns it.
C32_Witness ==
    /\ recType = "DB" /\ defaultCfg.DSN = ""
    /\ ret.called /\ ret.isZero /\ HasPrefix(ret.err, ValidationErrorPrefix)
    /\ builtAt = 0
    /\ chain = << LoadFileCall(Ptr("/etc/app/config.json")) >>
    /\ err = NoErr /\ config.DSN = "postgres://file"
    /\ TagsSatisfied(recType, config)

\* C33 (Build is pure): a Build call changes neither the record nor the
\* error slot, the prefix, the tag name, the candidate list or the process
\* environment; and a Build call made when the last call was a Build too
\* returns the outcome that one returned: the same record and no error, or
\* the zero value and the same error.
C33_BuildPure ==
    /\ [][ BuildStep =>
             UNCHANGED << recType, config, err, firstErr, envPrefix, envTag,
                          envFiles, environ, cwd, chain >> ]_vars
    /\ [][ (BuildStep /\ JustBuilt) => ret' = ret ]_vars
    /\ [](JustBuilt => IF ret.isZero THEN ret.err /= NoErr
                       ELSE ret.val = config /\ ret.err = NoErr)

\* Build after LoadFile of config.json and WithEnv with TEST_PORT set: it
\* returned the builder's record, which differs from the default, and the
\* builder still holds that record for the next Build.
C33_Witness ==
    /\ recType = "testConfig" /\ JustBuilt /\ ~ret.isZero
    /\ chain = << LoadFileCall(Ptr("/etc/app/config.json")), WithEnvCall >>
    /\ Getenv(realEnv, "TEST_PORT") = "6060"
    /\ ret.val = config /\ config /= defaultCfg
    /\ config.Name = "file-app" /\ config.Port = 6060

\* The first call of the chain is a LoadFile of a path that names no
\* document that fits the record: the call failed.
FirstCallFailed ==
    /\ Len(chain) >= 1 /\ chain[1].op = "LoadFile"
    /\ ~chain[1].path.isNil /\ chain[1].path.s /= ""
    /\ ~(HasDocument(chain[1].path) /\ Decodable(chain[1].path))

\* C35 (no locator on a Poisoned builder): a WithEnv call on a builder that
\* holds an error invokes nothing, neither os.Getwd nor a load of a
\* candidate, and leaves the process environment, the record and the error
\* as they were; so when the first call of the chain is a LoadFile that
\* failed, the environment is still the one the process started with,
\* whatever calls followed.
C35_PoisonedSkipsLocator ==
    /\ [][ (chain' = Append(chain, WithEnvCall) /\ err /= NoErr) =>
             /\ environ' = environ
             /\ invoked' = << >>
             /\ config' = config /\ err' = err ]_vars
    /\ [](FirstCallFailed => (err /= NoErr /\ environ = realEnv))

\* LoadFile of a file that does not exist, then WithEnv in /srv/app with
\* candidates that exist there and assign TEST_PORT and TEST_NAME: neither
\* key was put into the environment and nothing was invoked.
C35_Witness ==
    /\ recType = "testConfig"
    /\ Len(chain) = 2 /\ chain[1].op = "LoadFile" /\ chain[2] = WithEnvCall
    /\ HasPrefix(err, ReadErrorPrefix)
    /\ cwd = "/srv/app" /\ envFiles = << ".env.test1", ".env.test2" >>
    /\ realEnv = BaseEnv /\ environ = realEnv
    /\ \E a \in Candidates : Supplies(a, "TEST_PORT")
    /\ invoked = << >> /\ config = defaultCfg

\* C36 (an empty variable is present): in a WithEnv call on a Clean builder
\* a key the process environment holds with the empty string as its value
\* is still empty when the call is over, whatever the candidate files
\* assign to it, and every field bound to it keeps the value it had before
\* the call.
C36_EmptyCountsAsPresent ==
    [][ (chain' = Append(chain, WithEnvCall) /\ err = NoErr) =>
          \A key \in DOMAIN environ :
              environ[key] = "" =>
                  /\ key \in DOMAIN environ' /\ environ'[key] = ""
                  /\ \A i \in DOMAIN Leaves :
                       LET l == Leaves[i]
                       IN  (Bound(l) /\ envPrefix \o EnvName(l) = key) =>
                               At(config', l.path) = At(config, l.path) ]_vars

\* TEST_NAME set to the empty string before the resolution, candidates in
\* /srv/app that assign TEST_NAME and TEST_PORT: the port came from the
\* file, the name variable is still empty and the name is the default.
C36_Witness ==
    /\ recType = "testConfig" /\ chain = << WithEnvCall >> /\ err = NoErr
    /\ "TEST_NAME" \in DOMAIN realEnv /\ realEnv["TEST_NAME"] = ""
    /\ \E a \in Candidates : Supplies(a, "TEST_NAME")
    /\ "TEST_NAME" \in DOMAIN environ /\ Getenv(environ, "TEST_NAME") = ""
    /\ "TEST_PORT" \notin DOMAIN realEnv /\ Getenv(environ, "TEST_PORT") /= ""
    /\ config.Name = defaultCfg.Name /\ config.Port /= defaultCfg.Port

\* C37 (the environment overlay is idempotent): a WithEnv call that follows
\* a WithEnv call directly leaves the record, the error slot, the prefix,
\* the tag name, the candidate list and the process environment as the
\* first call left them.
C37_WithEnvIdempotent ==
    [][ ( /\ Len(chain) >= 1 /\ chain[Len(chain)] = WithEnvCall
          /\ chain' = Append(chain, WithEnvCall) ) =>
            /\ config' = config
            /\ err' = err
            /\ environ' = environ
            /\ UNCHANGED << envPrefix, envTag, envFiles >> ]_vars

\* Two WithEnv calls in /srv/app on a Clean builder, with TEST_TAGS set
\* before the resolution and candidates that assign the port: the second
\* call ran the locator and the mapper again, and the list of tags, the
\* port and the environment are those of the first call.
C37_Witness ==
    /\ recType = "testConfig" /\ chain = << WithEnvCall, WithEnvCall >>
    /\ err = NoErr /\ invoked = << Invocation("os.Getwd", "") >>
    /\ Getenv(realEnv, "TEST_TAGS") /= ""
    /\ config.Tags = << "env", "tag1", "", "tag2" >>
    /\ "TEST_PORT" \notin DOMAIN realEnv /\ Getenv(environ, "TEST_PORT") /= ""
    /\ config.Port /= defaultCfg.Port

-----------------------------------------------------------------------------
(* Two resolutions, one after the other, in one process                    *)

\* The process makes a builder for a testConfig record, as Init does, and
\* no resolution has ended in it yet.
ProcessInit ==
    /\ recType = "testConfig"
    /\ defaultCfg \in Defaults(recType)
    /\ config = defaultCfg
    /\ err = NoErr
    /\ envPrefix = "TEST_"
    /\ envTag = "env"
    /\ \E l \in Layouts : cwd = l.wd /\ envFiles = l.files
    /\ realEnv \in RealEnvs(recType)
    /\ environ = realEnv
    /\ ret = NoRet
    /\ chain = << >>
    /\ builtAt = 0 - 1
    /\ firstErr = NoErr
    /\ invoked = << >>
    /\ resolvers = Unused /\ walk = Unused /\ options = Unused
    /\ keycloak = Unused /\ logcfg = Unused
    /\ earlier = << >>

\* New that hands the builder an environment without the keys the earlier
\* resolution put into it.
NewResolutionFreshEnvironment(l) ==
    /\ earlier = << >>
    /\ earlier' = << [wd |-> cwd, files |-> envFiles,
                      before |-> realEnv, after |-> environ] >>
    /\ config' = defaultCfg
    /\ err' = NoErr
    /\ envFiles' = l.files
    /\ cwd' = l.wd
    /\ realEnv' = realEnv
    /\ environ' = realEnv
    /\ ret' = NoRet
    /\ chain' = << >>
    /\ builtAt' = 0 - 1
    /\ firstErr' = NoErr
    /\ invoked' = << >>
    /\ UNCHANGED << recType, envPrefix, envTag, defaultCfg,
                    resolvers, walk, options, keycloak, logcfg >>

\* The process is done with its builder and makes the next one, for a fresh
\* default record, with the candidate list and in the working directory of
\* layout l: New(defaultConfig, WithEnvPrefix("TEST_"), WithEnvFiles(...)).
\* New reads and writes nothing of the process environment, which is what
\* the earlier resolution left.
NewResolution(l) ==
    /\ earlier = << >>
    /\ earlier' = << [wd |-> cwd, files |-> envFiles,
                      before |-> realEnv, after |-> environ] >>
    /\ config' = defaultCfg
    /\ err' = NoErr
    /\ envFiles' = l.files
    /\ cwd' = l.wd
    /\ realEnv' = environ
    /\ ret' = NoRet
    /\ chain' = << >>
    /\ builtAt' = 0 - 1
    /\ firstErr' = NoErr
    /\ invoked' = << >>
    /\ UNCHANGED << recType, envPrefix, envTag, environ, defaultCfg,
                    resolvers, walk, options, keycloak, logcfg >>

ProcessNext ==
    \/ WithEnv
    \/ Build
    \/ \E l \in Layouts : NewResolution(l)

ProcessSpec == ProcessInit /\ [][ProcessNext]_vars

\* The keys the locator of the earlier resolution put into the environment.
InsertedEarlier ==
    IF earlier = << >> THEN { }
    ELSE DOMAIN earlier[1].after \ DOMAIN earlier[1].before

\* C34 (inserted keys persist): a key the locator of an earlier resolution
\* put into the process environment is in it with that value throughout the
\* later resolution, whatever candidate list and working directory that one
\* has and whatever the files it finds assign to the key; and when the
\* later WithEnv succeeds, a field bound to such a key holds the value the
\* earlier resolution inserted, coerced, if that value is not empty.
C34_InsertedKeysPersist ==
    /\ [](\A key \in InsertedEarlier :
              key \in DOMAIN environ /\ environ[key] = earlier[1].after[key])
    /\ [][ ( /\ earlier /= << >> /\ err = NoErr
             /\ chain' = Append(chain, WithEnvCall) /\ err' = NoErr ) =>
               \A i \in DOMAIN Leaves :
                   LET l   == Leaves[i]
                       key == envPrefix \o EnvName(l)
                   IN  ( /\ Bound(l) /\ key \in InsertedEarlier
                         /\ earlier[1].after[key] /= "" ) =>
                           At(config', l.path) =
                               Coerce(l.field, EnvName(l), earlier[1].after[key],
                                      At(config, l.path)).val ]_vars

\* The first resolution ran in /srv and inserted TEST_PORT=3333 from
\* /srv/.env.test1 and TEST_NAME from /.env.test2; the second ran in
\* /srv/app, where .env.test1 assigns 1111 to the port and another name and
\* .env.test2 assigns TEST_FACTOR: the second locator loaded the files
\* (TEST_FACTOR is now set), the port and name variables hold what the
\* first resolution inserted, and so do the fields of the second record.
C34_Witness ==
    /\ earlier /= << >>
    /\ earlier[1].wd = "/srv"
    /\ earlier[1].files = << ".env.test2", ".env.test1" >>
    /\ { "TEST_PORT", "TEST_NAME" } \subseteq InsertedEarlier
    /\ earlier[1].after["TEST_PORT"] = "3333"
    /\ cwd = "/srv/app" /\ envFiles = << ".env.test1", ".env.test2" >>
    /\ chain = << WithEnvCall >> /\ err = NoErr
    /\ "TEST_FACTOR" \notin DOMAIN realEnv
    /\ Getenv(environ, "TEST_FACTOR") = "7.7"
    /\ Getenv(environ, "TEST_PORT") = "3333"
    /\ config.Port = 3333 /\ config.Name = "name-from-root"

\* C38 (never overwrite, between concurrent locators): with two resolutions
\* interleaved in any way, a key that a locator has put into the process
\* environment keeps the value it was inserted with: no later os.Setenv of
\* either locator changes it.
C38_NeverOverwriteConcurrently ==
    [][ \A k \in DOMAIN environ \ DOMAIN realEnv :
            k \in DOMAIN environ' /\ environ'[k] = environ[k] ]_vars

\* TEST_PORT was not set when the process started; resolution 2 has read
\* 2222 for it from the environment, the value of .env.test2, and the
\* environment now holds 1111, the value of .env.test1: the key was in the
\* environment when resolution 1, which had copied the environment before,
\* set it.
C38_Witness ==
    /\ "TEST_PORT" \notin DOMAIN realEnv
    /\ "TEST_PORT" \in DOMAIN resolvers[2].reads
    /\ resolvers[2].reads["TEST_PORT"] = "2222"
    /\ Getenv(environ, "TEST_PORT") = "1111"
    /\ resolvers[1].files[1] = ".env.test1"

====
